---- MODULE Spec2Model ----
(***************************************************************************)
(* Slip-day tracker (src/CountSlips.py): extraction of a roster snapshot,  *)
(* identity keys, the persisted save file and the reconciliation of a new  *)
(* snapshot with the prior save.                                           *)
(*                                                                         *)
(* Text is modelled as a sequence of one-character strings, so that        *)
(* trimming, splitting, lower-casing, formatting and comparison are        *)
(* computed and not assumed.  An optional value (Python's None) is a       *)
(* sequence of length 0 or 1.  A Python dict is a sequence of <<key,       *)
(* value>> pairs with distinct keys, in insertion order.                   *)
(***************************************************************************)
EXTENDS Integers, Sequences, FiniteSets, TLC

VARIABLES
    save_file,          \* save.txt: <<>> when absent, else <<payload>>
    active_csv,         \* the snapshot file the session works on
    extracted,          \* load_or_init_state's locals: what the extractor returned
    state,              \* the live SaveState of gui_main
    prior,              \* load_or_init_state's local: what load_save returned
    selected_tracked,   \* load_or_init_state's local: <<>> or <<set of keys>>
    adopted,            \* reconcile's local prev, per key: <<>> or <<prior key>>
    pc,                 \* "start" (before the initial load), "ready", "exited"
    last_call,          \* <<>> or <<the handler call that ran last: the selected
                        \* key, n and the message box it showed>>
    esc_active,         \* gui_main's locals of the hold-Esc exit, lines 897-907
    esc_done,
    esc_is_down,
    esc_after_id,       \* an id of root.after is TRUE (set) or FALSE (None)
    esc_release_after_id,
    esc_finish_after_id,
    esc_save_started,
    esc_save_done,
    esc_save_error,
    esc_frame_mapped,   \* esc_frame.winfo_ismapped()
    after_queue,        \* the callbacks root.after holds and has not yet run
    worker_pc,          \* the thread of _esc_start_save: "none", "serialize",
                        \* "write", "finally", "finished"
    worker_read,        \* the records its save_state has read so far
    hold_began,         \* <<>> or <<the state when the last hold began>>
    clock,              \* the time of the hold in ms: since esc_start, at the
                        \* last release, until the callbacks of root.after
    writing             \* <<>> or <<the write_text of do_save in progress>>

sessionVars == <<save_file, active_csv, extracted, state, prior, selected_tracked, adopted, pc, last_call>>

escVars == <<esc_active, esc_done, esc_is_down, esc_after_id, esc_release_after_id, esc_finish_after_id, esc_save_started, esc_save_done, esc_save_error, esc_frame_mapped, after_queue, worker_pc, worker_read, hold_began, clock>>

vars == <<sessionVars, escVars, writing>>

---------------------------------------------------------------------------
(* Bounds of the model.                                                    *)

MaxRows == 3
MaxPriorRows == 2
MaxUsed == 2
MaxN == 2
MaxSessionRows == 2
MaxExtractRows == 3
MaxCount == 12
MaxEscRows == 1
\* Rows of a snapshot where the save is followed token by token.
MaxCrashRows == 1
\* Rows of a snapshot, and of the session that wrote the save file, where
\* snapshots are opened and the selection is changed.
MaxLiveRows == 1

---------------------------------------------------------------------------
(* Python str.                                                             *)

\* The characters the model uses, in code-point order.
CodePoints ==
    << " ", "#", ",", ".", "0", "1", "2", "3", "4", "5", "6", "7", "8", "9", ":",
       "A", "B", "D", "E", "J", "M", "P", "R", "X",
       "a", "b", "d", "e", "i", "j", "l", "m", "n", "o", "p", "r", "s", "t", "x" >>

Ord(c) == CHOOSE i \in 1..Len(CodePoints) : CodePoints[i] = c

Digits == {"0", "1", "2", "3", "4", "5", "6", "7", "8", "9"}

LowerChar(c) ==
    CASE c = "A" -> "a" [] c = "B" -> "b" [] c = "D" -> "d" [] c = "E" -> "e"
      [] c = "J" -> "j" [] c = "M" -> "m" [] c = "P" -> "p" [] c = "R" -> "r"
      [] c = "X" -> "x" [] OTHER -> c

Lower(s) == [i \in 1..Len(s) |-> LowerChar(s[i])]

\* s < t in Python's ordering of str (by code point, a proper prefix first).
RECURSIVE StrLess(_, _)
StrLess(s, t) ==
    IF t = <<>> THEN FALSE
    ELSE IF s = <<>> THEN TRUE
    ELSE IF s[1] # t[1] THEN Ord(s[1]) < Ord(t[1])
    ELSE StrLess(Tail(s), Tail(t))

RECURSIVE LStrip(_)
LStrip(s) == IF s # <<>> /\ s[1] = " " THEN LStrip(Tail(s)) ELSE s

RECURSIVE RStrip(_)
RStrip(s) ==
    IF s # <<>> /\ s[Len(s)] = " " THEN RStrip(SubSeq(s, 1, Len(s) - 1)) ELSE s

Strip(s) == RStrip(LStrip(s))

IsDigit(s) == s # <<>> /\ \A i \in 1..Len(s) : s[i] \in Digits

EndsWith(s, suffix) ==
    Len(s) >= Len(suffix) /\ SubSeq(s, Len(s) - Len(suffix) + 1, Len(s)) = suffix

\* str(n) for n >= 0
RECURSIVE IntToStr(_)
IntToStr(n) ==
    IF n < 10 THEN <<CodePoints[5 + n]>>
    ELSE IntToStr(n \div 10) \o <<CodePoints[5 + (n % 10)]>>

\* s.split(): the whitespace-delimited tokens of s
RECURSIVE SplitFrom(_, _, _)
SplitFrom(s, cur, acc) ==
    IF s = <<>> THEN (IF cur = <<>> THEN acc ELSE Append(acc, cur))
    ELSE IF s[1] = " "
         THEN SplitFrom(Tail(s), <<>>, IF cur = <<>> THEN acc ELSE Append(acc, cur))
         ELSE SplitFrom(Tail(s), Append(cur, s[1]), acc)

Split(s) == SplitFrom(s, <<>>, <<>>)

\* " ".join(parts)
RECURSIVE Join(_)
Join(parts) ==
    IF parts = <<>> THEN <<>>
    ELSE IF Len(parts) = 1 THEN parts[1]
    ELSE parts[1] \o <<" ">> \o Join(Tail(parts))

---------------------------------------------------------------------------
(* Python dict, insertion ordered.                                         *)

DictHas(d, k) == \E i \in 1..Len(d) : d[i][1] = k

DictIdx(d, k) == CHOOSE i \in 1..Len(d) : d[i][1] = k

DictGet(d, k) == d[DictIdx(d, k)][2]

DictSet(d, k, v) ==
    IF DictHas(d, k) THEN [d EXCEPT ![DictIdx(d, k)] = <<k, v>>]
    ELSE Append(d, <<k, v>>)

DictKeys(d) == {d[i][1] : i \in 1..Len(d)}

Elems(s) == {s[i] : i \in 1..Len(s)}

---------------------------------------------------------------------------
(* Configuration.                                                          *)

ATTENDANCES_PER_SLIP == 5

CONFIRMED_ATTENDANCE_VALUES ==
    { <<"1">>, <<"1", ".", "0">>, <<"1", ".", "0", "0">>,
      <<"1", ".", "0", "0", "0">>, <<"1", ".", "0", "0", "0", "0">>,
      <<"E", "X">> }

---------------------------------------------------------------------------
(* read_canvas_gradebook_csv.  A snapshot is the table pandas parsed:      *)
(* [name, has_sis, rows], a row being [Student, sis, cells] with every     *)
(* cell as str() shows it (a missing cell reads "nan").                    *)

NaN == <<"n", "a", "n">>

PointsPossible ==
    <<"p", "o", "i", "n", "t", "s", " ", "p", "o", "s", "s", "i", "b", "l", "e">>

is_real_student(val) ==
    LET s == Strip(val)
    IN  s # <<>> /\ Lower(s) \notin {NaN, PointsPossible}

\* f"{first} {last}".strip() when both parts are there, else the stripped name
name_first_last(s, last, first) ==
    IF first # <<>> /\ last # <<>> THEN Strip(first \o <<" ">> \o last) ELSE s

\* s.split(",", 1) at the first comma, at index c
name_split_at(s, c) ==
    name_first_last(s, Strip(SubSeq(s, 1, c - 1)), Strip(SubSeq(s, c + 1, Len(s))))

first_comma(s) ==
    CHOOSE i \in 1..Len(s) : s[i] = "," /\ \A j \in 1..(i - 1) : s[j] # ","

name_of_stripped(s) ==
    IF \E i \in 1..Len(s) : s[i] = "," THEN name_split_at(s, first_comma(s)) ELSE s

normalize_name(raw) == name_of_stripped(Strip(raw))

\* "" for a missing id
sis_nan_to_empty(sid) == IF Lower(sid) = NaN THEN <<>> ELSE sid

\* "12345.0" -> "12345"
sis_strip_float(sid) ==
    IF EndsWith(sid, <<".", "0">>) /\ IsDigit(SubSeq(sid, 1, Len(sid) - 2))
    THEN SubSeq(sid, 1, Len(sid) - 2)
    ELSE sid

normalize_sis(raw_id) == sis_strip_float(sis_nan_to_empty(Strip(raw_id)))

\* f"sid:{sid}" when the row has an id, else f"name:{name}#{n}"
row_key(name, sid, n) ==
    IF sid # <<>> THEN <<"s", "i", "d", ":">> \o sid
    ELSE <<"n", "a", "m", "e", ":">> \o name \o <<"#">> \o IntToStr(n)

\* Variant: every row without an id is the first of its name.
next_occurrence_restarts(occ, name) == 1

\* name_occurrence.get(name, 0) + 1
next_occurrence(occ, name) == IF DictHas(occ, name) THEN DictGet(occ, name) + 1 ELSE 1

row_sid(row, has_sis) == IF has_sis THEN normalize_sis(row.sis) ELSE <<>>

\* What a loop over the rows computes for one row: name, sid, the occurrence
\* number n and the key.
row_keyed(name, sid, n) ==
    [name |-> name, sid |-> sid, n |-> n, key |-> row_key(name, sid, n)]

row_numbered(name, sid, occ) == row_keyed(name, sid, next_occurrence(occ, name))

row_ident(row, has_sis, occ) ==
    row_numbered(normalize_name(row.Student), row_sid(row, has_sis), occ)

\* The occurrence counter after the row: only rows without an id count.
occurrence_after(occ, r) == IF r.sid # <<>> THEN occ ELSE DictSet(occ, r.name, r.n)

\* The first loop over the rows: keys in row order and the metadata by key.
RECURSIVE key_pass(_, _, _, _, _)
key_pass_row(rows, has_sis, name_occurrence, roster, meta, r) ==
    key_pass(Tail(rows), has_sis, occurrence_after(name_occurrence, r),
             Append(roster, r.key),
             DictSet(meta, r.key, [name |-> r.name, student_id |-> r.sid]))

key_pass(rows, has_sis, name_occurrence, roster, meta) ==
    IF rows = <<>> THEN [roster |-> roster, meta |-> meta]
    ELSE key_pass_row(rows, has_sis, name_occurrence, roster, meta,
                      row_ident(Head(rows), has_sis, name_occurrence))

\* (last, rest) of the words of a name
last_and_rest(parts) ==
    IF parts = <<>> THEN << <<>>, <<>> >>
    ELSE << Lower(parts[Len(parts)]), Lower(Join(SubSeq(parts, 1, Len(parts) - 1))) >>

last_name_sort_key(display_name) == last_and_rest(Split(Strip(display_name)))

\* student_meta.get(key, {}) with the defaults of its fields
key_meta(student_meta, key) ==
    IF DictHas(student_meta, key) THEN DictGet(student_meta, key)
    ELSE [name |-> <<>>, student_id |-> <<>>]

sort_tuple(ln, student_id, k) == <<ln[1], ln[2], student_id, k>>

meta_sort_key(m, k) == sort_tuple(last_name_sort_key(m.name), m.student_id, k)

\* The sort key of line 211: ((last, rest), student_id, key)
roster_sort_key(k, meta) == meta_sort_key(key_meta(meta, k), k)

\* Python's order of tuples of str
RECURSIVE TupleLess(_, _)
TupleLess(a, b) ==
    IF a = <<>> \/ b = <<>> THEN a = <<>> /\ b # <<>>
    ELSE IF a[1] # b[1] THEN StrLess(a[1], b[1])
    ELSE TupleLess(Tail(a), Tail(b))

\* list.sort(key=...): stable, ascending
RECURSIVE sort_insert(_, _, _)
sort_insert(sorted, k, meta) ==
    IF sorted = <<>> THEN <<k>>
    ELSE IF TupleLess(roster_sort_key(k, meta), roster_sort_key(Head(sorted), meta))
         THEN <<k>> \o sorted
         ELSE <<Head(sorted)>> \o sort_insert(Tail(sorted), k, meta)

RECURSIVE sort_roster(_, _, _)
sort_roster(keys, sorted, meta) ==
    IF keys = <<>> THEN sorted
    ELSE sort_roster(Tail(keys), sort_insert(sorted, Head(keys), meta), meta)

count_confirmed(cells) ==
    Cardinality({i \in 1..Len(cells) : Strip(cells[i]) \in CONFIRMED_ATTENDANCE_VALUES})

\* The second loop over the rows: its own occurrence counter, the count by key.
RECURSIVE attendance_pass(_, _, _, _)
attendance_pass_row(rows, has_sis, name_occurrence_for_att, confirmed_attendance, r) ==
    attendance_pass(Tail(rows), has_sis, occurrence_after(name_occurrence_for_att, r),
                    DictSet(confirmed_attendance, r.key, count_confirmed(Head(rows).cells)))

attendance_pass(rows, has_sis, name_occurrence_for_att, confirmed_attendance) ==
    IF rows = <<>> THEN confirmed_attendance
    ELSE attendance_pass_row(rows, has_sis, name_occurrence_for_att, confirmed_attendance,
                             row_ident(Head(rows), has_sis, name_occurrence_for_att))

\* The header of the table.  A snapshot that is not a Canvas export names its
\* columns; an export has "Student", the id column when there is one, and an
\* attendance column per cell of a row.
StudentColumn == <<"S", "t", "u", "d", "e", "n", "t">>
SisColumn == <<"S", "I", "S", " ", "U", "s", "e", "r", " ", "I", "D">>
AttendanceColumn(i) == <<"1", "-">> \o IntToStr(i) \o <<" ", "(", "7", "4", ")">>

ExportColumns(has_sis) ==
    <<StudentColumn>> \o (IF has_sis THEN <<SisColumn>> ELSE <<>>)
        \o [i \in 1..10 |-> AttendanceColumn(i)]

Columns(csv) ==
    IF "columns" \in DOMAIN csv THEN csv.columns ELSE ExportColumns(csv.has_sis)

\* ^\s*(\d{1,2})-(\d{1,2})\s*\( on s, the header after its leading blanks
attendance_col_match_stripped(s) ==
    \E m \in 1..2, d \in 1..2 :
        /\ m + 1 + d + 1 <= Len(s)
        /\ IsDigit(SubSeq(s, 1, m))
        /\ s[m + 1] = "-"
        /\ IsDigit(SubSeq(s, m + 2, m + 1 + d))
        /\ LStrip(SubSeq(s, m + d + 2, Len(s))) # <<>>
        /\ LStrip(SubSeq(s, m + d + 2, Len(s)))[1] = "("

\* _ATTENDANCE_COL_RE.match(c)
attendance_col_match(c) == attendance_col_match_stripped(LStrip(c))

\* Variant: a table without attendance columns is read as one of rows without
\* attendance.
extraction_error_attendance_optional(csv) ==
    IF StudentColumn \notin Elems(Columns(csv)) THEN "missing 'Student' column" ELSE ""

\* The ValueError of lines 146-151, "" when the table passes both tests.
extraction_error(csv) ==
    IF StudentColumn \notin Elems(Columns(csv)) THEN "missing 'Student' column"
    ELSE IF ~\E i \in 1..Len(Columns(csv)) : attendance_col_match(Columns(csv)[i])
         THEN "No attendance columns detected"
    ELSE ""

df_students(csv) == SelectSeq(csv.rows, LAMBDA row : is_real_student(row.Student))

\* The three results, from the rows kept and the outcome kp of the first loop.
extraction(rows, has_sis, kp) ==
    [ roster_keys_in_order |-> sort_roster(kp.roster, <<>>, kp.meta),
      confirmed_attendance |-> attendance_pass(rows, has_sis, <<>>, <<>>),
      student_meta         |-> kp.meta ]

extract_rows(rows, has_sis) ==
    extraction(rows, has_sis, key_pass(rows, has_sis, <<>>, <<>>, <<>>))

read_canvas_gradebook_csv(csv) == extract_rows(df_students(csv), csv.has_sis)

---------------------------------------------------------------------------
(* Data model.                                                             *)

\* StudentState(key, name, student_id, tracked, used, notes, dropped): the
\* cached fields take their defaults.
StudentState(key, name, student_id, tracked, used, notes, dropped) ==
    [ key |-> key, name |-> name, student_id |-> student_id, tracked |-> tracked,
      used |-> used, notes |-> notes, dropped |-> dropped,
      attendance_confirmed |-> 0, earned |-> 0 ]

SaveState(roster_keys_in_order, last_csv_name) ==
    [ roster_keys_in_order |-> roster_keys_in_order, students |-> <<>>,
      last_csv_name |-> last_csv_name ]

available(st) == IF st.earned - st.used > 0 THEN st.earned - st.used ELSE 0

---------------------------------------------------------------------------
(* Save / load.  The file holds the JSON object save_state writes.         *)

\* obj.get(field, default)
Get(obj, field, default) == IF field \in DOMAIN obj THEN obj[field] ELSE default

RECURSIVE load_students(_, _)
load_students(students_raw, students) ==
    IF students_raw = <<>> THEN students
    ELSE LET key_or_name == Head(students_raw)[1]
             sdata       == Head(students_raw)[2]
             key0        == Get(sdata, "key", <<>>)
             sid         == Strip(Get(sdata, "student_id", <<>>))
             key         == IF key0 # <<>> THEN key0
                            ELSE IF sid # <<>> THEN <<"s", "i", "d", ":">> \o sid
                            ELSE <<"n", "a", "m", "e", ":">> \o key_or_name \o <<"#", "1">>
             st          == StudentState(key,
                                         Get(sdata, "name", key_or_name),
                                         Get(sdata, "student_id", <<>>),
                                         Get(sdata, "tracked", TRUE),
                                         Get(sdata, "used", 0),
                                         Get(sdata, "notes", <<>>),
                                         Get(sdata, "dropped", FALSE))
         IN  load_students(Tail(students_raw), DictSet(students, key, st))

\* <<>> is None: the file does not exist
load_save(file) ==
    IF file = <<>> THEN <<>>
    ELSE LET data == file[1]
         IN  << [ roster_keys_in_order |-> Get(data, "roster_keys_in_order", <<>>),
                  students             |-> load_students(Get(data, "students", <<>>), <<>>),
                  last_csv_name        |-> Get(data, "last_csv_name", "") ] >>

\* Variant: "dropped" is not written.
save_state_without_dropped(saved) ==
    [ roster_keys_in_order |-> saved.roster_keys_in_order,
      last_csv_name        |-> saved.last_csv_name,
      students             |->
          [ i \in 1..Len(saved.students) |->
              LET st == saved.students[i][2]
              IN  << saved.students[i][1],
                     [ key |-> st.key, name |-> st.name, student_id |-> st.student_id,
                       tracked |-> st.tracked, used |-> st.used, notes |-> st.notes ] >> ] ]

save_state(saved) ==
    [ roster_keys_in_order |-> saved.roster_keys_in_order,
      last_csv_name        |-> saved.last_csv_name,
      students             |->
          [ i \in 1..Len(saved.students) |->
              LET st == saved.students[i][2]
              IN  << saved.students[i][1],
                     [ key |-> st.key, name |-> st.name, student_id |-> st.student_id,
                       tracked |-> st.tracked, used |-> st.used, notes |-> st.notes,
                       dropped |-> st.dropped ] >> ] ]

---------------------------------------------------------------------------
(* The text of the save file.  json.dumps and json.loads work on tokens:    *)
(* punctuation, strings, numbers and the literals true and false; white     *)
(* space carries nothing.                                                   *)

Punct(t) == [t |-> t]
StrTok(v) == [t |-> "str", v |-> v]
NumTok(n) == [t |-> "num", v |-> n]
LitTok(b) == [t |-> "lit", v |-> b]

\* The members of an object or the items of an array, with commas between.
RECURSIVE Commas(_)
Commas(parts) ==
    IF parts = <<>> THEN <<>>
    ELSE IF Len(parts) = 1 THEN parts[1]
    ELSE parts[1] \o <<Punct(",")>> \o Commas(Tail(parts))

Member(name, value) == <<StrTok(name), Punct(":")>> \o value

Object(members) == <<Punct("{")>> \o Commas(members) \o <<Punct("}")>>

Array(items) == <<Punct("[")>> \o Commas(items) \o <<Punct("]")>>

\* One record of "students", lines 297-305.
dumps_student(st) ==
    Object(<< Member("key", <<StrTok(st.key)>>),
              Member("name", <<StrTok(st.name)>>),
              Member("student_id", <<StrTok(st.student_id)>>),
              Member("tracked", <<LitTok(st.tracked)>>),
              Member("used", <<NumTok(st.used)>>),
              Member("notes", <<StrTok(st.notes)>>),
              Member("dropped", <<LitTok(st.dropped)>>) >>)

\* json.dumps(payload, indent=2, ensure_ascii=False) of line 309
json_dumps(payload) ==
    Object(<< Member("roster_keys_in_order",
                     Array([ i \in 1..Len(payload.roster_keys_in_order) |->
                               <<StrTok(payload.roster_keys_in_order[i])>> ])),
              Member("last_csv_name", <<StrTok(payload.last_csv_name)>>),
              Member("students",
                     Object([ i \in 1..Len(payload.students) |->
                                Member(payload.students[i][1],
                                       dumps_student(payload.students[i][2])) ])) >>)

\* The decoder: a value and the tokens after it, or no value.
Decoded(v, rest) == [ok |-> TRUE, v |-> v, rest |-> rest]
Undecodable == [ok |-> FALSE, v |-> <<>>, rest |-> <<>>]

RECURSIVE parse_value(_)
RECURSIVE parse_items(_, _)
RECURSIVE parse_members(_, _)

\* After an item of an array: "," and the next item, or "]".
parse_items_more(items, r) ==
    IF ~r.ok \/ r.rest = <<>> THEN Undecodable
    ELSE IF r.rest[1].t = "]" THEN Decoded(Append(items, r.v), Tail(r.rest))
    ELSE IF r.rest[1].t = "," THEN parse_items(Append(items, r.v), Tail(r.rest))
    ELSE Undecodable

parse_items(items, ts) == parse_items_more(items, parse_value(ts))

\* After a member of an object: "," and the next member, or "}".
parse_members_more(members, name, r) ==
    IF ~r.ok \/ r.rest = <<>> THEN Undecodable
    ELSE IF r.rest[1].t = "}" THEN Decoded(Append(members, <<name, r.v>>), Tail(r.rest))
    ELSE IF r.rest[1].t = "," THEN parse_members(Append(members, <<name, r.v>>), Tail(r.rest))
    ELSE Undecodable

parse_members(members, ts) ==
    IF Len(ts) < 2 \/ ts[1].t # "str" \/ ts[2].t # ":" THEN Undecodable
    ELSE parse_members_more(members, ts[1].v, parse_value(Tail(Tail(ts))))

parse_value(ts) ==
    IF ts = <<>> THEN Undecodable
    ELSE IF ts[1].t \in {"str", "num", "lit"} THEN Decoded(ts[1].v, Tail(ts))
    ELSE IF ts[1].t = "[" THEN
        (IF Len(ts) >= 2 /\ ts[2].t = "]" THEN Decoded(<<>>, Tail(Tail(ts)))
         ELSE parse_items(<<>>, Tail(ts)))
    ELSE IF ts[1].t = "{" THEN
        (IF Len(ts) >= 2 /\ ts[2].t = "}" THEN Decoded(<<>>, Tail(Tail(ts)))
         ELSE parse_members(<<>>, Tail(ts)))
    ELSE Undecodable

\* One value and nothing after it.
whole_document(r) == IF r.ok /\ r.rest = <<>> THEN r ELSE Undecodable

\* Variant: a text that ends early is completed with the closing braces it
\* lacks.
json_loads_completing(text) ==
    LET tries == << text, Append(text, Punct("}")),
                    text \o <<Punct("}"), Punct("}")>>,
                    text \o <<Punct("}"), Punct("}"), Punct("}")>> >>
        good  == { i \in 1..Len(tries) : whole_document(parse_value(tries[i])).ok }
    IN  IF good = {} THEN Undecodable
        ELSE whole_document(parse_value(tries[CHOOSE i \in good : \A j \in good : i <= j]))

\* json.loads(raw) of line 254: the value, or JSONDecodeError
json_loads(text) == whole_document(parse_value(text))

\* data.get(name, default) on a decoded object
Lookup(obj, name, default) ==
    IF \E i \in 1..Len(obj) : obj[i][1] = name
    THEN obj[CHOOSE i \in 1..Len(obj) : obj[i][1] = name][2]
    ELSE default

\* The decoded document as the dict save_state built, a field that is not
\* there with the default load_save gives it.
as_student(key_or_name, obj) ==
    [ key |-> Lookup(obj, "key", <<>>), name |-> Lookup(obj, "name", key_or_name),
      student_id |-> Lookup(obj, "student_id", <<>>),
      tracked |-> Lookup(obj, "tracked", TRUE), used |-> Lookup(obj, "used", 0),
      notes |-> Lookup(obj, "notes", <<>>), dropped |-> Lookup(obj, "dropped", FALSE) ]

as_students(obj) == [ i \in 1..Len(obj) |-> << obj[i][1], as_student(obj[i][1], obj[i][2]) >> ]

as_payload(doc) ==
    [ roster_keys_in_order |-> Lookup(doc, "roster_keys_in_order", <<>>),
      last_csv_name        |-> Lookup(doc, "last_csv_name", ""),
      students             |-> as_students(Lookup(doc, "students", <<>>)) ]

\* A file is <<>> (absent), <<the dict of a complete document>> or
\* <<[torn |-> tokens]>>, the text an unfinished write left.
is_torn(file) == file # <<>> /\ "torn" \in DOMAIN file[1]

\* load_save raises SystemExit: the text does not decode.
unparsable(file) == is_torn(file) /\ ~json_loads(file[1].torn).ok

\* The dict json.loads returns for the file.
file_data(file) ==
    IF is_torn(file) THEN <<as_payload(json_loads(file[1].torn).v)>> ELSE file
---------------------------------------------------------------------------

(* Slip calculation and reconciliation.                                    *)

\* Variant: the quotient rounded up.
compute_earned_rounded_up(attendance_confirmed) ==
    (attendance_confirmed + ATTENDANCES_PER_SLIP - 1) \div ATTENDANCES_PER_SLIP

\* Variant: the quotient rounded to the nearest whole number.
compute_earned_nearest(attendance_confirmed) ==
    (2 * attendance_confirmed + ATTENDANCES_PER_SLIP) \div (2 * ATTENDANCES_PER_SLIP)

compute_earned(attendance_confirmed) == attendance_confirmed \div ATTENDANCES_PER_SLIP

\* prior_by_sid: stripped id -> the prior record (named by its key in
\* prior_students); a later record with the same id replaces an earlier one.
RECURSIVE index_by_sid(_, _)
index_by_sid(prior_students, prior_by_sid) ==
    IF prior_students = <<>> THEN prior_by_sid
    ELSE LET pst == Head(prior_students)
             sid == Strip(pst[2].student_id)
         IN  index_by_sid(Tail(prior_students),
                          IF sid # <<>> THEN DictSet(prior_by_sid, sid, pst[1])
                          ELSE prior_by_sid)

\* prior_by_name: name -> the list of prior records with that name
RECURSIVE index_by_name(_, _)
index_by_name(prior_students, prior_by_name) ==
    IF prior_students = <<>> THEN prior_by_name
    ELSE LET pst  == Head(prior_students)
             name == pst[2].name
             lst  == IF DictHas(prior_by_name, name) THEN DictGet(prior_by_name, name)
                     ELSE <<>>
         IN  index_by_name(Tail(prior_students),
                           DictSet(prior_by_name, name, Append(lst, pst[1])))

\* Variant: the name is tried before the id.
match_prior_name_first(key, name, sid, prior_students, prior_by_sid, prior_by_name) ==
    LET prev1 == IF DictHas(prior_students, key) THEN <<key>> ELSE <<>>
        matches == IF DictHas(prior_by_name, name) THEN DictGet(prior_by_name, name)
                   ELSE <<>>
        prev2 == IF prev1 = <<>> /\ name # <<>> /\ Len(matches) = 1
                 THEN <<matches[1]>> ELSE prev1
    IN  IF prev2 = <<>> /\ sid # <<>> /\ DictHas(prior_by_sid, sid)
        THEN <<DictGet(prior_by_sid, sid)>>
        ELSE prev2

\* Variant: of several prior records with the name, the first is taken.
match_prior_first_of_many(key, name, sid, prior_students, prior_by_sid, prior_by_name) ==
    LET prev1 == IF DictHas(prior_students, key) THEN <<key>> ELSE <<>>
        prev2 == IF prev1 = <<>> /\ sid # <<>>
                 THEN (IF DictHas(prior_by_sid, sid) THEN <<DictGet(prior_by_sid, sid)>>
                       ELSE <<>>)
                 ELSE prev1
        matches == IF DictHas(prior_by_name, name) THEN DictGet(prior_by_name, name)
                   ELSE <<>>
    IN  IF prev2 = <<>> /\ name # <<>>
        THEN (IF Len(matches) >= 1 THEN <<matches[1]>> ELSE <<>>)
        ELSE prev2

\* Variant: a record is matched by its key or its id only.
match_prior_no_name_fallback(key, name, sid, prior_students, prior_by_sid, prior_by_name) ==
    IF DictHas(prior_students, key) THEN <<key>>
    ELSE IF sid # <<>> /\ DictHas(prior_by_sid, sid) THEN <<DictGet(prior_by_sid, sid)>>
    ELSE <<>>

\* Variant: the record under the same key is not looked up.
match_prior_no_exact_key(key, name, sid, prior_students, prior_by_sid, prior_by_name) ==
    LET prev2 == IF sid # <<>> /\ DictHas(prior_by_sid, sid)
                 THEN <<DictGet(prior_by_sid, sid)>> ELSE <<>>
        matches == IF DictHas(prior_by_name, name) THEN DictGet(prior_by_name, name)
                   ELSE <<>>
    IN  IF prev2 = <<>> /\ name # <<>>
        THEN (IF Len(matches) = 1 THEN <<matches[1]>> ELSE <<>>)
        ELSE prev2

\* The local prev of the loop, lines 354-361: <<>> (None) or <<key of the
\* prior record>>.
match_prior(key, name, sid, prior_students, prior_by_sid, prior_by_name) ==
    LET prev1 == IF DictHas(prior_students, key) THEN <<key>> ELSE <<>>
        prev2 == IF prev1 = <<>> /\ sid # <<>>
                 THEN (IF DictHas(prior_by_sid, sid) THEN <<DictGet(prior_by_sid, sid)>>
                       ELSE <<>>)
                 ELSE prev1
        matches == IF DictHas(prior_by_name, name) THEN DictGet(prior_by_name, name)
                   ELSE <<>>
    IN  IF prev2 = <<>> /\ name # <<>>
        THEN (IF Len(matches) = 1 THEN <<matches[1]>> ELSE <<>>)
        ELSE prev2

\* Lines 371-381: the new record with the given tracked, used and dropped,
\* the notes of p, and the count and earned of the snapshot.
built_student(key, name, sid, p, tracked, used, dropped, attendance_confirmed) ==
    LET att == IF DictHas(attendance_confirmed, key)
               THEN DictGet(attendance_confirmed, key) ELSE 0
    IN  [ StudentState(key, name, sid, tracked, used, p.notes, dropped) EXCEPT
            !.attendance_confirmed = att,
            !.earned = compute_earned(att) ]

\* Lines 363-366: the prior record prev names, or the defaults of a new one.
prev_or_defaults(prev, prior_students) ==
    IF prev # <<>> THEN DictGet(prior_students, prev[1])
    ELSE StudentState(<<>>, <<>>, <<>>, FALSE, 0, <<>>, FALSE)

\* Lines 368-369: the selection, when there is one, decides tracked.
selected_or(selected, key, tracked) ==
    IF selected # <<>> THEN key \in selected[1] ELSE tracked

\* Lines 371-381 with the fields carried from p.
carried_student(key, name, sid, p, attendance_confirmed, selected) ==
    built_student(key, name, sid, p, selected_or(selected, key, p.tracked), p.used,
                  p.dropped, attendance_confirmed)

\* Lines 383-384: used never exceeds earned.
clamp_used(st) == [st EXCEPT !.used = IF st.used > st.earned THEN st.earned ELSE st.used]

\* Variant: used is not lowered to earned.
reconcile_student_no_clamp(key, name, sid, prev, prior_students, attendance_confirmed, selected) ==
    carried_student(key, name, sid, prev_or_defaults(prev, prior_students),
                    attendance_confirmed, selected)

\* Variant: dropped is not carried over.
reconcile_student_undropped(key, name, sid, prev, prior_students, attendance_confirmed, selected) ==
    LET p == prev_or_defaults(prev, prior_students)
    IN  clamp_used(built_student(key, name, sid, p, selected_or(selected, key, p.tracked),
                                 p.used, FALSE, attendance_confirmed))

\* Variant: the selection is applied to unmatched records only.
reconcile_student_keeps_tracked(key, name, sid, prev, prior_students, attendance_confirmed, selected) ==
    LET p == prev_or_defaults(prev, prior_students)
    IN  clamp_used(built_student(key, name, sid, p,
                                 IF prev # <<>> THEN p.tracked
                                 ELSE selected_or(selected, key, p.tracked),
                                 p.used, p.dropped, attendance_confirmed))

\* The body of the loop, lines 363-384: the record stored under key.
reconcile_student(key, name, sid, prev, prior_students, attendance_confirmed, selected) ==
    clamp_used(carried_student(key, name, sid, prev_or_defaults(prev, prior_students),
                               attendance_confirmed, selected))

\* The loop of lines 349-386 over the keys still to handle: the students
\* dict and, beside it, the prev each key got.
RECURSIVE reconcile_loop(_, _, _, _, _, _, _, _)
reconcile_key(keys, student_meta, attendance_confirmed, prior_students, prior_by_sid, prior_by_name, selected, acc, key, meta, prev) ==
    reconcile_loop(Tail(keys), student_meta, attendance_confirmed, prior_students,
                   prior_by_sid, prior_by_name, selected,
                   [ students |-> DictSet(acc.students, key,
                                          reconcile_student(key, meta.name, meta.student_id,
                                                            prev, prior_students,
                                                            attendance_confirmed, selected)),
                     prev     |-> DictSet(acc.prev, key, prev) ])

reconcile_loop(keys, student_meta, attendance_confirmed, prior_students, prior_by_sid, prior_by_name, selected, acc) ==
    IF keys = <<>> THEN acc
    ELSE LET key  == Head(keys)
             meta == key_meta(student_meta, key)
         IN  reconcile_key(keys, student_meta, attendance_confirmed, prior_students,
                           prior_by_sid, prior_by_name, selected, acc, key, meta,
                           match_prior(key, meta.name, meta.student_id, prior_students,
                                       prior_by_sid, prior_by_name))

\* Variant: the new students dict starts as the prior one.
reconcile_run_keeps_prior(roster_keys_in_order, attendance_confirmed, student_meta, prior_state, selected) ==
    LET prior_students == IF prior_state # <<>> THEN prior_state[1].students ELSE <<>>
    IN  reconcile_loop(roster_keys_in_order, student_meta, attendance_confirmed,
                       prior_students, index_by_sid(prior_students, <<>>),
                       index_by_name(prior_students, <<>>), selected,
                       [students |-> prior_students, prev |-> <<>>])

reconcile_run(roster_keys_in_order, attendance_confirmed, student_meta, prior_state, selected) ==
    LET prior_students == IF prior_state # <<>> THEN prior_state[1].students ELSE <<>>
    IN  reconcile_loop(roster_keys_in_order, student_meta, attendance_confirmed,
                       prior_students, index_by_sid(prior_students, <<>>),
                       index_by_name(prior_students, <<>>), selected,
                       [students |-> <<>>, prev |-> <<>>])

\* The SaveState the call returns (state) and, beside it, the prev each key
\* got inside the call (prev).
reconcile_state_with_csv(roster_keys_in_order, attendance_confirmed, student_meta, prior_state, selected, csv_name) ==
    LET run == reconcile_run(roster_keys_in_order, attendance_confirmed, student_meta,
                             prior_state, selected)
    IN  [ state |-> [ SaveState(roster_keys_in_order, csv_name) EXCEPT
                        !.students = run.students ],
          prev  |-> run.prev ]

---------------------------------------------------------------------------
(* The inputs the model draws from.                                        *)

Present == <<"1", ".", "0", "0">>
Absent == <<"0", ".", "0", "0">>
Excused == <<"E", "X">>

Cells7 ==
    << Present, Present, Excused, Absent, Present, NaN, <<" ", "1">>,
       <<"1", ".", "0">>, <<"e", "x">>, <<"1">> >>

Cells4 ==
    << Present, Absent, Absent, <<"E", "X", " ">>, Absent, Present, NaN, Absent,
       Present, Absent >>

Cells10 ==
    << Present, Present, Present, Present, Present, Excused, Present, Present,
       Present, Present >>

JaneRaw == <<"D", "o", "e", ",", " ", "J", "a", "n", "e">>
JaneDoe == <<"J", "a", "n", "e", " ", "D", "o", "e">>
AlRoe == <<"A", "l", " ", "R", "o", "e">>
Id4421 == <<"4", "4", "2", "1">>

\* A person without an id and the same person with one; another person whose
\* id reads the same once the float artifact is stripped.
RowPool ==
    { [Student |-> JaneRaw, sis |-> NaN, cells |-> Cells7],
      [Student |-> JaneRaw, sis |-> Id4421, cells |-> Cells4],
      [Student |-> AlRoe, sis |-> Id4421 \o <<".", "0">>, cells |-> Cells10] }

SeqsUpTo(S, n) == UNION {[1..k -> S] : k \in 0..n}

\* A snapshot has the "SIS User ID" column or not; without it no row has an id.
Snapshots ==
    { [name |-> "new.csv", has_sis |-> TRUE, rows |-> rows] :
          rows \in SeqsUpTo(RowPool, MaxRows) }
    \cup
    { [name |-> "new.csv", has_sis |-> FALSE, rows |-> rows] :
          rows \in SeqsUpTo({r \in RowPool : r.sis = NaN}, MaxRows) }

\* What the user left on a record before the file was written.
Adjustments ==
    { [tracked |-> TRUE, used |-> MaxUsed, notes |-> <<"l", "a", "t", "e">>,
       dropped |-> FALSE],
      [tracked |-> FALSE, used |-> 1, notes |-> <<>>, dropped |-> TRUE] }

\* The state of an earlier session on the snapshot csv, with adj[i] left on
\* the i-th record.
Adjusted(s0, adj) ==
    [ s0 EXCEPT !.students =
        [ i \in 1..Len(s0.students) |->
            << s0.students[i][1],
               [ s0.students[i][2] EXCEPT !.tracked = adj[i].tracked,
                                          !.used = adj[i].used,
                                          !.notes = adj[i].notes,
                                          !.dropped = adj[i].dropped ] >> ] ]

FirstState(ex) ==
    reconcile_state_with_csv(ex.roster_keys_in_order, ex.confirmed_attendance,
                             ex.student_meta, <<>>, <<>>, "old.csv").state

EarlierState(csv, adj) == Adjusted(FirstState(read_canvas_gradebook_csv(csv)), adj)

\* Neighbouring records were left with different adjustments, so that a
\* record that takes over the adjustments of another one shows.
AdjustmentsOf(n) ==
    { adj \in [1..n -> Adjustments] : \A i \in 1..(n - 1) : adj[i] # adj[i + 1] }

EarlierStates ==
    UNION { { EarlierState([name |-> "old.csv", has_sis |-> TRUE, rows |-> rows], adj) :
                adj \in AdjustmentsOf(Len(rows)) } :
            rows \in SeqsUpTo(RowPool, MaxPriorRows) }

\* The file of an older version: records stored under the name, without
\* "key", and no roster order.
LegacyPayload(s) ==
    [ last_csv_name |-> s.last_csv_name,
      students      |->
          [ i \in 1..Len(s.students) |->
              LET st == s.students[i][2]
              IN  << st.name,
                     [ name |-> st.name, student_id |-> st.student_id,
                       tracked |-> st.tracked, used |-> st.used, notes |-> st.notes,
                       dropped |-> st.dropped ] >> ] ]

DistinctNames(s) ==
    \A i, j \in 1..Len(s.students) :
        i # j => s.students[i][2].name # s.students[j][2].name

\* No file, the files the program wrote, and the files of the older version.
FilesOf(states) ==
    { <<>> }
    \cup { <<save_state(s)>> : s \in states }
    \cup { <<LegacyPayload(s)>> : s \in {t \in states : DistinctNames(t)} }

SaveFiles == FilesOf(EarlierStates)

\* A save whose id keys are spelled id:<id>, the spelling of the documentation
\* (written by hand or by another version; load_save accepts any key).
Respell(key) ==
    IF Len(key) >= 4 /\ SubSeq(key, 1, 4) = <<"s", "i", "d", ":">>
    THEN <<"i", "d", ":">> \o SubSeq(key, 5, Len(key))
    ELSE key

RespelledPayload(s) ==
    [ roster_keys_in_order |->
          [ i \in 1..Len(s.roster_keys_in_order) |-> Respell(s.roster_keys_in_order[i]) ],
      last_csv_name |-> s.last_csv_name,
      students      |->
          [ i \in 1..Len(s.students) |->
              LET st == s.students[i][2]
              IN  << Respell(st.key),
                     [ key |-> Respell(st.key), name |-> st.name,
                       student_id |-> st.student_id, tracked |-> st.tracked,
                       used |-> st.used, notes |-> st.notes, dropped |-> st.dropped ] >> ] ]

RespelledOf(states) == { <<RespelledPayload(s)>> : s \in states }

AnyFilesOf(states) == FilesOf(states) \cup RespelledOf(states)

AnySaveFiles == AnyFilesOf(EarlierStates)

\* What gui_select_students returns: <<>> (cancelled) or <<the selection>>,
\* a non-empty set of roster keys.
DialogResults(roster_keys_in_order) ==
    { <<>> } \cup { <<sel>> : sel \in (SUBSET Elems(roster_keys_in_order)) \ {{}} }

---------------------------------------------------------------------------
(* The session.                                                            *)

StartWith(files, snapshots) ==
    /\ save_file \in files
    /\ active_csv \in snapshots
    /\ extracted = [ roster_keys_in_order |-> <<>>, confirmed_attendance |-> <<>>,
                     student_meta |-> <<>> ]
    /\ state = SaveState(<<>>, "")
    /\ prior = <<>>
    /\ selected_tracked = <<>>
    /\ adopted = <<>>
    /\ pc = "start"
    /\ last_call = <<>>
    /\ esc_active = FALSE
    /\ esc_done = FALSE
    /\ esc_is_down = FALSE
    /\ esc_after_id = FALSE
    /\ esc_release_after_id = FALSE
    /\ esc_finish_after_id = FALSE
    /\ esc_save_started = FALSE
    /\ esc_save_done = FALSE
    /\ esc_save_error = ""
    /\ esc_frame_mapped = FALSE
    /\ after_queue = {}
    /\ worker_pc = "none"
    /\ worker_read = <<>>
    /\ hold_began = <<>>
    /\ clock = [held_ms |-> 0, up_at |-> 0, cancel_in |-> 0, poll_in |-> 0]
    /\ writing = <<>>

Start(files) == StartWith(files, Snapshots)

\* The save file is absent or was written by the program.
Init == Start(SaveFiles)

\* The save file may also be one the program did not write.
InitAnyFile == Start(AnySaveFiles)

\* Variant: a file that does not decode is taken for no file.
try_load_save_forgiving(file) ==
    IF unparsable(file) THEN [raised |-> FALSE, prior |-> <<>>]
    ELSE [raised |-> FALSE, prior |-> load_save(file_data(file))]

\* load_save(save_path) with its except clause: the prior state, or
\* SystemExit("Failed to read ...") raised.
try_load_save(file) ==
    IF unparsable(file) THEN [raised |-> TRUE, prior |-> <<>>]
    ELSE [raised |-> FALSE, prior |-> load_save(file_data(file))]

\* load_or_init_state(csv), run by the handler recorded as call.  A
\* ValueError of the extractor ends the process when gui_main raised it and
\* is reported by Tk when a callback did, which then ends where it was; a
\* SystemExit ends the process from either.  (Each local is bound once, as a
\* value.)
load_or_init_state(csv, call) ==
    /\ active_csv' = csv
    /\ last_call' = call
    /\ UNCHANGED <<escVars, writing>>
    /\ IF extraction_error(csv) # ""
       THEN /\ pc' = IF pc = "start" THEN "failed" ELSE pc
            /\ UNCHANGED <<save_file, extracted, state, prior, selected_tracked, adopted>>
       ELSE \E ex \in {read_canvas_gradebook_csv(csv)}, r \in {try_load_save(save_file)} :
         IF r.raised
         THEN /\ pc' = "failed"
              /\ extracted' = ex
              /\ UNCHANGED <<save_file, state, prior, selected_tracked, adopted>>
         ELSE
         LET loaded      == r.prior
             roster      == ex.roster_keys_in_order
             roster_same == /\ loaded # <<>>
                            /\ loaded[1].roster_keys_in_order # <<>>
                            /\ loaded[1].roster_keys_in_order = roster
             ask         == loaded = <<>> \/ ~roster_same
         IN  \E choice \in (IF ask THEN DialogResults(roster) ELSE { <<>> }) :
               IF ask /\ choice = <<>> /\ loaded = <<>>
               THEN \* cancelled on the first-ever run: root.destroy(), SystemExit(0)
                    /\ pc' = "exited"
                    /\ extracted' = ex
                    /\ UNCHANGED <<save_file, state, prior, selected_tracked, adopted>>
               ELSE \E new \in {reconcile_state_with_csv(roster, ex.confirmed_attendance,
                                                        ex.student_meta, loaded, choice,
                                                        csv.name)} :
                      /\ extracted' = ex
                      /\ state' = new.state
                      /\ prior' = loaded
                      /\ selected_tracked' = choice
                      /\ adopted' = new.prev
                      /\ save_file' = IF loaded = <<>> \/ choice # <<>>
                                      THEN <<save_state(new.state)>> ELSE save_file
                      /\ pc' = "ready"

\* load_or_init_state(active_csv), as gui_main runs it for the initial load and
\* do_open_csv after the same snapshot was chosen again.
LoadOrInitState ==
    /\ pc \in {"start", "ready"}
    /\ load_or_init_state(active_csv, <<>>)

\* do_save: the Save button
DoSave ==
    /\ pc = "ready"
    /\ save_file' = <<save_state(state)>>
    /\ last_call' = <<>>
    /\ UNCHANGED <<active_csv, extracted, state, prior, selected_tracked, adopted, pc, escVars, writing>>

Next == LoadOrInitState \/ DoSave

Spec == Init /\ [][Next]_vars

SpecAnyFile == InitAnyFile /\ [][Next]_vars

---------------------------------------------------------------------------
(* The accounting handlers of the table.                                   *)

\* The rows of the table are the tracked students (refresh_table); the
\* handlers act on the selected one.
TableKeys ==
    { state.students[i][1] :
          i \in {j \in 1..Len(state.students) : state.students[j][2].tracked} }

\* Variant: a dropped student may still use slip days.
do_use_ignores_dropped(st, n) ==
    IF available(st) < n THEN [st |-> st, shown |-> "Not enough"]
    ELSE [st |-> [st EXCEPT !.used = st.used + n], shown |-> ""]

\* do_use(n) on the selected student st: the student afterwards and the
\* message box shown ("" for none).
do_use(st, n) ==
    IF st.dropped THEN [st |-> st, shown |-> "Dropped"]
    ELSE IF available(st) < n THEN [st |-> st, shown |-> "Not enough"]
    ELSE [st |-> [st EXCEPT !.used = st.used + n], shown |-> ""]

\* Variant: the difference is not floored at zero.
do_refund_unfloored(st, n) == [st EXCEPT !.used = st.used - n]

\* do_refund(n): st.used = max(0, st.used - n)
do_refund(st, n) == [st EXCEPT !.used = IF st.used - n > 0 THEN st.used - n ELSE 0]

\* Variant: dropping a student forgets the slip days used.
do_toggle_drop_resets_used(st) ==
    [st EXCEPT !.dropped = ~st.dropped, !.used = IF ~st.dropped THEN 0 ELSE st.used]

\* do_toggle_drop: st.dropped = not st.dropped; when now dropped,
\* st.used = min(st.used, st.earned)
do_toggle_drop(st) ==
    [st EXCEPT !.dropped = ~st.dropped,
               !.used = IF ~st.dropped /\ st.earned < st.used THEN st.earned ELSE st.used]

\* The record of a handler call on the student under key.
Called(op, key, n, shown) == << [op |-> op, key |-> key, n |-> n, shown |-> shown] >>

\* state.students[key] is the object the handler changed in place.
WithStudent(key, st) == [state EXCEPT !.students = DictSet(state.students, key, st)]

DoUse ==
    /\ pc = "ready"
    /\ \E key \in TableKeys, n \in 0..MaxN :
         \E r \in {do_use(DictGet(state.students, key), n)} :
           /\ state' = WithStudent(key, r.st)
           /\ last_call' = Called("do_use", key, n, r.shown)
    /\ UNCHANGED <<save_file, active_csv, extracted, prior, selected_tracked, adopted, pc, escVars, writing>>

DoRefund ==
    /\ pc = "ready"
    /\ \E key \in TableKeys, n \in 0..MaxN :
         /\ state' = WithStudent(key, do_refund(DictGet(state.students, key), n))
         /\ last_call' = Called("do_refund", key, n, "")
    /\ UNCHANGED <<save_file, active_csv, extracted, prior, selected_tracked, adopted, pc, escVars, writing>>

DoToggleDrop ==
    /\ pc = "ready"
    /\ \E key \in TableKeys :
         /\ state' = WithStudent(key, do_toggle_drop(DictGet(state.students, key)))
         /\ last_call' = Called("do_toggle_drop", key, 0, "")
    /\ UNCHANGED <<save_file, active_csv, extracted, prior, selected_tracked, adopted, pc, escVars, writing>>

\* The snapshots and save files of a session on the table.
SessionSnapshots ==
    { [name |-> "new.csv", has_sis |-> TRUE, rows |-> rows] :
          rows \in SeqsUpTo(RowPool, MaxSessionRows) }

InitSession == StartWith({ <<>> }, SessionSnapshots)

\* The initial load and the three handlers.
NextSession == LoadOrInitState \/ DoUse \/ DoRefund \/ DoToggleDrop

SpecSession == InitSession /\ [][NextSession]_vars

---------------------------------------------------------------------------
(* Snapshots for the extractor alone: more kinds of rows, no save file.    *)

BobMoe == <<"B", "o", "b", " ", "M", "o", "e">>
AnnLeeDoeRaw == <<" ", "a", "n", "n", " ", " ", "l", "e", "e", " ", "d", "o", "e", " ">>
PointsPossibleRaw ==
    <<" ", " ", "P", "o", "i", "n", "t", "s", " ", "P", "o", "s", "s", "i", "b", "l", "e">>
Id17Raw == <<" ", "1", "7", " ">>
Cells0 == << Absent, Absent, NaN, <<"e", "x">>, <<"1", " ", "0">>, Absent, Absent, Absent, Absent, Absent >>

\* The rows of RowPool; a person whose name sorts between theirs; a name in
\* lower case with more words and blanks; the first person under another id;
\* the "Points Possible" row of the export.
ExtractPool ==
    RowPool \cup
    { [Student |-> BobMoe, sis |-> NaN, cells |-> Cells0],
      [Student |-> AnnLeeDoeRaw, sis |-> NaN, cells |-> Cells10],
      [Student |-> JaneRaw, sis |-> Id17Raw, cells |-> Cells10],
      [Student |-> PointsPossibleRaw, sis |-> NaN, cells |-> Cells10] }

ExtractSnapshots ==
    { [name |-> "new.csv", has_sis |-> TRUE, rows |-> rows] :
          rows \in SeqsUpTo(ExtractPool, MaxExtractRows) }

InitExtract == StartWith({ <<>> }, ExtractSnapshots)

SpecExtract == InitExtract /\ [][Next]_vars

---------------------------------------------------------------------------
---------------------------------------------------------------------------
(* Hold Esc to save and exit: the handlers of the UI thread (each runs to   *)
(* its end before the next) and the thread of the save.                     *)

SAVEESCTIME == 800

\* gui_main started without a snapshot: active_csv is None and the state is
\* empty (pc = "nocsv").
NoCsv == [name |-> "", has_sis |-> FALSE, rows |-> <<>>]

\* The process runs its main loop.
Alive == pc \in {"ready", "nocsv"}

\* Variant: the exit does not wait for the save.
esc_finish_waits_never(started, done) == FALSE

\* Line 968: the save is still running.
esc_finish_waits(started, done) == started /\ ~done

\* _esc_finish(), called by _esc_tick or _poll when root.after still holds the
\* callbacks q and esc_finish_after_id is finish_id: a _poll in 50 ms while
\* the save runs, else root.destroy() and SystemExit(0).
EscFinish(q, finish_id) ==
    IF esc_done
    THEN /\ after_queue' = q
         /\ esc_finish_after_id' = finish_id
         /\ UNCHANGED <<esc_done, pc>>
    ELSE IF esc_finish_waits(esc_save_started, esc_save_done)
    THEN /\ after_queue' = (IF finish_id THEN q ELSE q \cup {"_poll"})
         /\ esc_finish_after_id' = TRUE
         /\ UNCHANGED <<esc_done, pc>>
    ELSE /\ esc_done' = TRUE
         /\ pc' = "exited"
         /\ after_queue' = q
         /\ esc_finish_after_id' = finish_id

\* _esc_start_save(): at most once in a session; the thread is started when
\* a snapshot is loaded.
EscStartSave ==
    IF esc_save_started
    THEN UNCHANGED <<esc_save_started, esc_save_done, esc_save_error, worker_pc, worker_read>>
    ELSE /\ esc_save_started' = TRUE
         /\ esc_save_error' = ""
         /\ IF pc = "nocsv"
            THEN esc_save_done' = TRUE /\ UNCHANGED <<worker_pc, worker_read>>
            ELSE esc_save_done' = FALSE /\ worker_pc' = "serialize" /\ worker_read' = <<>>

\* on_esc_press: a pending _esc_maybe_cancel is cancelled, then
\* _esc_start_hold(), whose first _esc_tick() sees no time elapsed and sets
\* the next one.
on_esc_press ==
    /\ Alive
    /\ esc_is_down' = TRUE
    /\ esc_release_after_id' = FALSE
    /\ \E q \in {IF esc_release_after_id THEN after_queue \ {"_esc_maybe_cancel"} ELSE after_queue} :
         IF esc_active \/ esc_done \/ esc_frame_mapped
         THEN /\ after_queue' = q
              /\ UNCHANGED <<esc_active, esc_frame_mapped, esc_after_id, esc_save_started,
                             esc_save_done, esc_save_error, worker_pc, worker_read, hold_began>>
         ELSE /\ esc_active' = TRUE
              /\ hold_began' = <<state>>
              /\ EscStartSave
              /\ esc_frame_mapped' = TRUE
              /\ esc_after_id' = TRUE
              /\ after_queue' = q \cup {"_esc_tick"}
    /\ UNCHANGED <<sessionVars, esc_done, esc_finish_after_id, writing>>

\* on_esc_release: _esc_maybe_cancel in 140 ms, unless one is set.
on_esc_release ==
    /\ Alive
    /\ esc_is_down
    /\ esc_is_down' = FALSE
    /\ IF ~esc_done /\ ~esc_release_after_id
       THEN esc_release_after_id' = TRUE /\ after_queue' = after_queue \cup {"_esc_maybe_cancel"}
       ELSE UNCHANGED <<esc_release_after_id, after_queue>>
    /\ UNCHANGED <<sessionVars, esc_active, esc_done, esc_after_id, esc_finish_after_id,
                   esc_save_started, esc_save_done, esc_save_error, esc_frame_mapped,
                   worker_pc, worker_read, hold_began, writing>>

\* _esc_maybe_cancel: with the key still up, _esc_hide() cancels the tick and
\* the poll and brings the toolbar back.
esc_maybe_cancel ==
    /\ Alive
    /\ "_esc_maybe_cancel" \in after_queue
    /\ esc_release_after_id' = FALSE
    /\ IF ~esc_done /\ ~esc_is_down
       THEN /\ esc_active' = FALSE
            /\ esc_after_id' = FALSE
            /\ esc_finish_after_id' = FALSE
            /\ esc_frame_mapped' = FALSE
            /\ after_queue' = {}
       ELSE /\ after_queue' = after_queue \ {"_esc_maybe_cancel"}
            /\ UNCHANGED <<esc_active, esc_after_id, esc_finish_after_id, esc_frame_mapped>>
    /\ UNCHANGED <<sessionVars, esc_done, esc_is_down, esc_save_started, esc_save_done,
                   esc_save_error, worker_pc, worker_read, hold_began, writing>>

\* _esc_tick: the progress bar; once SAVEESCTIME ms have passed since the hold
\* began, _esc_finish(), else the next tick in 1 ms.
esc_tick(elapsed_ms) ==
    /\ Alive
    /\ "_esc_tick" \in after_queue
    /\ IF ~esc_active
       THEN /\ after_queue' = after_queue \ {"_esc_tick"}
            /\ UNCHANGED <<esc_done, esc_finish_after_id, pc>>
       ELSE IF elapsed_ms >= SAVEESCTIME
       THEN EscFinish(after_queue \ {"_esc_tick"}, esc_finish_after_id)
       ELSE UNCHANGED <<after_queue, esc_done, esc_finish_after_id, pc>>
    /\ UNCHANGED <<save_file, active_csv, extracted, state, prior, selected_tracked, adopted,
                   last_call, esc_active, esc_is_down, esc_after_id, esc_release_after_id,
                   esc_save_started, esc_save_done, esc_save_error, esc_frame_mapped,
                   worker_pc, worker_read, hold_began, writing>>

\* _poll: _esc_finish() once the save has reported, else the next _poll.
poll ==
    /\ Alive
    /\ "_poll" \in after_queue
    /\ IF esc_done
       THEN /\ after_queue' = after_queue \ {"_poll"}
            /\ esc_finish_after_id' = FALSE
            /\ UNCHANGED <<esc_done, pc>>
       ELSE IF esc_save_done
       THEN EscFinish(after_queue \ {"_poll"}, FALSE)
       ELSE UNCHANGED <<after_queue, esc_done, esc_finish_after_id, pc>>
    /\ UNCHANGED <<save_file, active_csv, extracted, state, prior, selected_tracked, adopted,
                   last_call, esc_active, esc_is_down, esc_after_id, esc_release_after_id,
                   esc_save_started, esc_save_done, esc_save_error, esc_frame_mapped,
                   worker_pc, worker_read, hold_began, writing>>

\* The handlers when the time of the hold is left open: a callback of
\* root.after runs at any moment after it was set, and time.monotonic() has
\* passed the hold time or has not.
OnEscPress == on_esc_press /\ UNCHANGED clock

OnEscRelease == on_esc_release /\ UNCHANGED clock

EscMaybeCancel == esc_maybe_cancel /\ UNCHANGED clock

EscTick == (\E elapsed_ms \in {0, SAVEESCTIME} : esc_tick(elapsed_ms)) /\ UNCHANGED clock

EscPoll == poll /\ UNCHANGED clock

\* The thread, save_state(save_path, state): the dict comprehension of lines
\* 296-306 reads one record after the other while the UI thread runs.
WorkerSerialize ==
    /\ Alive
    /\ worker_pc = "serialize"
    /\ IF Len(worker_read) < Len(state.students)
       THEN worker_read' = Append(worker_read, state.students[Len(worker_read) + 1])
            /\ UNCHANGED worker_pc
       ELSE worker_pc' = "write" /\ UNCHANGED worker_read
    /\ UNCHANGED <<sessionVars, esc_active, esc_done, esc_is_down, esc_after_id,
                   esc_release_after_id, esc_finish_after_id, esc_save_started, esc_save_done,
                   esc_save_error, esc_frame_mapped, after_queue, hold_began, clock, writing>>

\* write_text returns: the file holds what the thread has read.
WorkerWrite ==
    /\ Alive
    /\ worker_pc = "write"
    /\ save_file' = <<save_state([state EXCEPT !.students = worker_read])>>
    /\ worker_pc' = "finally"
    /\ UNCHANGED <<active_csv, extracted, state, prior, selected_tracked, adopted, pc, last_call,
                   esc_active, esc_done, esc_is_down, esc_after_id, esc_release_after_id,
                   esc_finish_after_id, esc_save_started, esc_save_done, esc_save_error,
                   esc_frame_mapped, after_queue, worker_read, hold_began, clock, writing>>

\* write_text raises (the file cannot be opened for writing): the except
\* clause keeps the message.
WorkerWriteFails ==
    /\ Alive
    /\ worker_pc = "write"
    /\ esc_save_error' = "error"
    /\ worker_pc' = "finally"
    /\ UNCHANGED <<sessionVars, esc_active, esc_done, esc_is_down, esc_after_id,
                   esc_release_after_id, esc_finish_after_id, esc_save_started, esc_save_done,
                   esc_frame_mapped, after_queue, worker_read, hold_began, clock, writing>>

\* finally: esc_save_done = True, and the thread ends.
WorkerFinally ==
    /\ Alive
    /\ worker_pc = "finally"
    /\ esc_save_done' = TRUE
    /\ worker_pc' = "finished"
    /\ UNCHANGED <<sessionVars, esc_active, esc_done, esc_is_down, esc_after_id,
                   esc_release_after_id, esc_finish_after_id, esc_save_started,
                   esc_save_error, esc_frame_mapped, after_queue, worker_read, hold_began,
                   clock, writing>>

\* The keys bound on the table, which stay bound while the toolbar is hidden:
\* "[" is do_use(1), "]" is do_refund(1), Delete is do_toggle_drop().
OnLeftBracket ==
    /\ pc = "ready"
    /\ \E key \in TableKeys :
         \E r \in {do_use(DictGet(state.students, key), 1)} :
           /\ state' = WithStudent(key, r.st)
           /\ last_call' = Called("do_use", key, 1, r.shown)
    /\ UNCHANGED <<save_file, active_csv, extracted, prior, selected_tracked, adopted, pc, escVars, writing>>

OnRightBracket ==
    /\ pc = "ready"
    /\ \E key \in TableKeys :
         /\ state' = WithStudent(key, do_refund(DictGet(state.students, key), 1))
         /\ last_call' = Called("do_refund", key, 1, "")
    /\ UNCHANGED <<save_file, active_csv, extracted, prior, selected_tracked, adopted, pc, escVars, writing>>

\* gui_main's initial load, lines 1167-1172: with a snapshot, or without one
\* (active_csv = None, state = SaveState()).
InitialLoad == pc = "start" /\ active_csv # NoCsv /\ LoadOrInitState

StartWithoutCsv ==
    /\ pc = "start"
    /\ active_csv = NoCsv
    /\ pc' = "nocsv"
    /\ UNCHANGED <<save_file, active_csv, extracted, state, prior, selected_tracked, adopted, last_call, escVars, writing>>

\* The snapshots of one row, and those of more rows of the person without an
\* id.
RowsUpTo(n) ==
    [1..1 -> RowPool] \cup (SeqsUpTo({r \in RowPool : r.sis = NaN}, n) \ { <<>> })

\* No save file; a snapshot, or no snapshot at all.
EscSnapshots ==
    { [name |-> "new.csv", has_sis |-> TRUE, rows |-> rows] : rows \in RowsUpTo(MaxEscRows) }

InitEsc == StartWith({ <<>> }, EscSnapshots \cup {NoCsv})

NextEsc ==
    \/ InitialLoad \/ StartWithoutCsv
    \/ OnLeftBracket \/ OnRightBracket \/ DoToggleDrop
    \/ OnEscPress \/ OnEscRelease \/ EscMaybeCancel \/ EscTick \/ EscPoll
    \/ WorkerSerialize \/ WorkerWrite \/ WorkerWriteFails \/ WorkerFinally

SpecEsc == InitEsc /\ [][NextEsc]_vars

---------------------------------------------------------------------------
(* The Save button step by step, and a process that dies.                  *)

\* What a write that stopped inside the token left of it: nothing that
\* decodes of a string or a literal, the leading digits of a number.
Torn(tok) ==
    IF tok.t \in {"str", "lit"} THEN { <<[t |-> "cut"]>> }
    ELSE IF tok.t = "num" /\ tok.v >= 10 THEN { <<NumTok(tok.v \div 10)>> }
    ELSE {}

\* The texts a write of text can leave that stopped before its end.
ProperPrefixes(text) ==
    { SubSeq(text, 1, k) : k \in 0..(Len(text) - 1) }
    \cup UNION { { SubSeq(text, 1, k) \o tail : tail \in Torn(text[k + 1]) } :
                 k \in 0..(Len(text) - 1) }

\* do_save, save_state up to the call of write_text: the dict is built and
\* json.dumps has returned its text.
SaveSerialize ==
    /\ pc = "ready"
    /\ \E payload \in {save_state(state)} :
         writing' = << [ payload |-> payload, text |-> json_dumps(payload),
                         old |-> save_file, opened |-> FALSE ] >>
    /\ pc' = "saving"
    /\ UNCHANGED <<save_file, active_csv, extracted, state, prior, selected_tracked,
                   adopted, last_call, escVars>>

\* write_text opens the file for writing, which empties it.
SaveOpen ==
    /\ pc = "saving"
    /\ ~writing[1].opened
    /\ writing' = << [writing[1] EXCEPT !.opened = TRUE] >>
    /\ save_file' = << [torn |-> <<>>] >>
    /\ UNCHANGED <<active_csv, extracted, state, prior, selected_tracked, adopted, pc,
                   last_call, escVars>>

\* The next token reaches the file.
SaveWrite ==
    /\ pc = "saving"
    /\ writing[1].opened
    /\ Len(save_file[1].torn) < Len(writing[1].text)
    /\ save_file' = << [torn |-> SubSeq(writing[1].text, 1, Len(save_file[1].torn) + 1)] >>
    /\ UNCHANGED <<active_csv, extracted, state, prior, selected_tracked, adopted, pc,
                   last_call, escVars, writing>>

\* The text is written: write_text closes the file and do_save returns.
SaveClose ==
    /\ pc = "saving"
    /\ writing[1].opened
    /\ save_file[1].torn = writing[1].text
    /\ save_file' = file_data(save_file)
    /\ writing' = <<>>
    /\ pc' = "ready"
    /\ last_call' = <<>>
    /\ UNCHANGED <<active_csv, extracted, state, prior, selected_tracked, adopted, escVars>>

\* The process dies, inside a token when the write was under way.
Crash ==
    /\ pc \in {"ready", "saving"}
    /\ pc' = "crashed"
    /\ IF pc = "saving" /\ writing[1].opened
          /\ Len(save_file[1].torn) < Len(writing[1].text)
       THEN \E tail \in { <<>> } \cup Torn(writing[1].text[Len(save_file[1].torn) + 1]) :
              save_file' = << [torn |-> save_file[1].torn \o tail] >>
       ELSE save_file' = save_file
    /\ UNCHANGED <<active_csv, extracted, state, prior, selected_tracked, adopted,
                   last_call, escVars, writing>>

\* The program is started again on the same snapshot and save file.
Restart ==
    /\ pc = "crashed"
    /\ pc' = "start"
    /\ extracted' = [ roster_keys_in_order |-> <<>>, confirmed_attendance |-> <<>>,
                      student_meta |-> <<>> ]
    /\ state' = SaveState(<<>>, "")
    /\ prior' = <<>>
    /\ selected_tracked' = <<>>
    /\ adopted' = <<>>
    /\ last_call' = <<>>
    /\ writing' = <<>>
    /\ UNCHANGED <<save_file, active_csv, escVars>>

CrashSnapshots ==
    { [name |-> "new.csv", has_sis |-> TRUE, rows |-> rows] : rows \in RowsUpTo(MaxCrashRows) }

InitCrash == StartWith({ <<>> }, CrashSnapshots)

NextCrash ==
    \/ InitialLoad \/ OnLeftBracket \/ DoToggleDrop
    \/ SaveSerialize \/ SaveOpen \/ SaveWrite \/ SaveClose
    \/ Crash \/ Restart

SpecCrash == InitCrash /\ [][NextCrash]_vars

---------------------------------------------------------------------------
(* The handlers that reconcile again, and the note.                        *)

\* What askstring returns: <<>> (cancelled) or <<the text typed>>.
NoteInputs == { <<>>, << <<" ", "o", "k", " ">> >> }

\* do_edit_note
DoEditNote ==
    /\ pc = "ready"
    /\ \E key \in TableKeys, new_note \in NoteInputs :
         /\ state' = IF new_note = <<>> THEN state
                     ELSE WithStudent(key, [DictGet(state.students, key)
                                               EXCEPT !.notes = Strip(new_note[1])])
         /\ last_call' = Called("do_edit_note", key, 0, "")
    /\ UNCHANGED <<save_file, active_csv, extracted, prior, selected_tracked, adopted, pc,
                   escVars, writing>>

\* do_change_tracked: the extraction, the dialog, then load_save, the
\* reconciliation with the selection and save_state.  A ValueError of the
\* extractor and a cancelled dialog end the handler where it was.
DoChangeTracked ==
    /\ pc = "ready"
    /\ last_call' = Called("do_change_tracked", <<>>, 0, "")
    /\ UNCHANGED <<active_csv, escVars, writing>>
    /\ IF extraction_error(active_csv) # ""
       THEN UNCHANGED <<save_file, extracted, state, prior, selected_tracked, adopted, pc>>
       ELSE \E ex \in {read_canvas_gradebook_csv(active_csv)} :
            \E selected \in DialogResults(ex.roster_keys_in_order) :
              IF selected = <<>>
              THEN UNCHANGED <<save_file, extracted, state, prior, selected_tracked,
                               adopted, pc>>
              ELSE \E r \in {try_load_save(save_file)} :
                IF r.raised
                THEN /\ pc' = "failed"
                     /\ UNCHANGED <<save_file, extracted, state, prior, selected_tracked,
                                    adopted>>
                ELSE \E new \in {reconcile_state_with_csv(ex.roster_keys_in_order,
                                     ex.confirmed_attendance, ex.student_meta, r.prior,
                                     selected, active_csv.name)} :
                       /\ extracted' = ex
                       /\ state' = new.state
                       /\ prior' = r.prior
                       /\ selected_tracked' = selected
                       /\ adopted' = new.prev
                       /\ save_file' = <<save_state(new.state)>>
                       /\ pc' = pc

\* Snapshots that are no Canvas export: one without the "Student" column (the
\* names stand under "Name"), one without attendance columns.
MalformedSnapshots ==
    { [ name |-> "names.csv", has_sis |-> FALSE,
        columns |-> << <<"N", "a", "m", "e">>, AttendanceColumn(1), AttendanceColumn(2) >>,
        rows |-> << [Student |-> JaneRaw, sis |-> NaN, cells |-> Cells7] >> ],
      [ name |-> "scores.csv", has_sis |-> FALSE,
        columns |-> << StudentColumn, <<"F", "i", "n", "a", "l", " ", "1", "-", "2">> >>,
        rows |-> << [Student |-> JaneRaw, sis |-> NaN, cells |-> <<>>] >> ] }

LiveSnapshots ==
    { [name |-> "new.csv", has_sis |-> TRUE, rows |-> rows] : rows \in RowsUpTo(MaxLiveRows) }
    \cup MalformedSnapshots

\* do_open_csv with a snapshot loaded: the file dialog (cancelled, or a
\* snapshot chosen), then load_or_init_state on the chosen one.
DoOpenCsv ==
    /\ pc = "ready"
    /\ \/ /\ last_call' = Called("do_open_csv", <<>>, 0, "")
          /\ UNCHANGED <<save_file, active_csv, extracted, state, prior, selected_tracked,
                         adopted, pc, escVars, writing>>
       \/ \E csv \in LiveSnapshots :
            load_or_init_state(csv, Called("do_open_csv", <<>>, 0, ""))

\* No save file, or one the program wrote in an earlier session on at most one
\* row.
LiveFiles ==
    { <<>> } \cup
    { <<save_state(s)>> : s \in
        UNION { { EarlierState([name |-> "old.csv", has_sis |-> TRUE, rows |-> rows], adj) :
                    adj \in AdjustmentsOf(Len(rows)) } :
                rows \in SeqsUpTo(RowPool, 1) } }

InitLive == StartWith(LiveFiles, LiveSnapshots)

\* The initial load and the handlers of the table and the menu; saves are
\* those of the reconciliations.
NextLive ==
    \/ InitialLoad \/ DoOpenCsv \/ DoChangeTracked
    \/ OnLeftBracket \/ OnRightBracket \/ DoToggleDrop \/ DoEditNote

SpecLive == InitLive /\ [][NextLive]_vars

---------------------------------------------------------------------------
(* What the properties speak of.                                           *)

\* The extractor's output the reconciliation was given.
Extracted == extracted

\* A reconciliation has returned and its result is the live state.
Reconciled == pc = "ready"

PriorStudents == IF prior = <<>> THEN <<>> ELSE prior[1].students

PriorKeys == DictKeys(PriorStudents)

PriorRec(k) == DictGet(PriorStudents, k)

PriorWithSid(sid) == {k \in PriorKeys : PriorRec(k).student_id = sid}

PriorWithName(name) == {k \in PriorKeys : PriorRec(k).name = name}

Records == 1..Len(state.students)

RecKey(i) == state.students[i][1]

Rec(i) == state.students[i][2]

Prev(i) == DictGet(adopted, RecKey(i))

Meta(ex, i) == DictGet(ex.student_meta, RecKey(i))

Count(ex, i) == DictGet(ex.confirmed_attendance, RecKey(i))

Min(a, b) == IF a < b THEN a ELSE b

NoRepeat(seq) == \A i, j \in 1..Len(seq) : i # j => seq[i] # seq[j]

Selected == selected_tracked # <<>>

---------------------------------------------------------------------------
(* Properties of reconciliation.                                           *)

\* C1: after reconciliation every record has used <= earned, whatever the
\* prior state, the snapshot and the selection; a carried-over used above the
\* new earned is lowered to exactly earned.
C1_ClampLaw ==
    LET ex == Extracted IN
        Reconciled =>
            \A i \in Records :
                /\ Rec(i).used <= Rec(i).earned
                /\ Rec(i).earned = Count(ex, i) \div 5
                /\ (Prev(i) # <<>> /\ PriorRec(Prev(i)[1]).used > Rec(i).earned)
                       => Rec(i).used = Rec(i).earned

\* A record adopted a prior record whose used exceeded the positive new earned.
C1_Witness ==
    /\ Reconciled
    /\ \E i \in Records :
           /\ Prev(i) # <<>>
           /\ Rec(i).earned >= 1
           /\ PriorRec(Prev(i)[1]).used > Rec(i).earned

\* C2: no prior record is adopted by two records of the new state.
C2_NoDuplicateAdoption ==
    Reconciled =>
        \A i, j \in Records :
            (i # j /\ Prev(i) # <<>>) => Prev(i) # Prev(j)

\* C3: the adopted prior record is the one under the same key; else, for a
\* row with an id, one with that id; else the only one with the same name;
\* else none.  An earlier step that succeeds decides.
C3_FallbackChain ==
    LET ex == Extracted IN
        Reconciled =>
            \A i \in Records :
                IF RecKey(i) \in PriorKeys
                THEN Prev(i) = <<RecKey(i)>>
                ELSE IF Meta(ex, i).student_id # <<>> /\ PriorWithSid(Meta(ex, i).student_id) # {}
                THEN Prev(i) # <<>> /\ Prev(i)[1] \in PriorWithSid(Meta(ex, i).student_id)
                ELSE IF Cardinality(PriorWithName(Meta(ex, i).name)) = 1
                THEN Prev(i) # <<>> /\ Prev(i)[1] \in PriorWithName(Meta(ex, i).name)
                ELSE Prev(i) = <<>>

\* A record adopted by its id although another prior record is the only one
\* with its name, and a record adopted by its name alone.
C3_Witness ==
    LET ex == Extracted IN
        /\ Reconciled
        /\ \E i \in Records :
               /\ RecKey(i) \notin PriorKeys
               /\ Prev(i) # <<>>
               /\ Prev(i)[1] \in PriorWithSid(Meta(ex, i).student_id)
               /\ Cardinality(PriorWithName(Meta(ex, i).name)) = 1
               /\ Prev(i)[1] \notin PriorWithName(Meta(ex, i).name)
        /\ \E i \in Records :
               /\ RecKey(i) \notin PriorKeys
               /\ (Meta(ex, i).student_id = <<>> \/ PriorWithSid(Meta(ex, i).student_id) = {})
               /\ Prev(i) # <<>>
               /\ PriorWithName(Meta(ex, i).name) = {Prev(i)[1]}

\* The premise of C4: no record under the key, none with the row's id, and
\* not exactly one with the row's name.
Unmatched(ex, i) ==
    /\ RecKey(i) \notin PriorKeys
    /\ (Meta(ex, i).student_id = <<>> \/ PriorWithSid(Meta(ex, i).student_id) = {})
    /\ Cardinality(PriorWithName(Meta(ex, i).name)) # 1

\* C4: an unmatched key, also one whose name is ambiguous, raises nothing and
\* starts with used=0, notes="", dropped=false and tracked=false (tracked
\* decided by the selection when there is one).
C4_UnmatchedStartsFresh ==
    LET ex == Extracted IN
        Reconciled =>
            \A i \in Records :
                Unmatched(ex, i) =>
                    /\ Prev(i) = <<>>
                    /\ Rec(i).used = 0
                    /\ Rec(i).notes = <<>>
                    /\ Rec(i).dropped = FALSE
                    /\ Rec(i).tracked = (Selected /\ RecKey(i) \in selected_tracked[1])

\* A fresh record whose name two prior records carry, each with adjustments.
C4_Witness ==
    LET ex == Extracted IN
        /\ Reconciled
        /\ ~Selected
        /\ \E i \in Records :
               /\ Unmatched(ex, i)
               /\ Cardinality(PriorWithName(Meta(ex, i).name)) >= 2
               /\ \A k \in PriorWithName(Meta(ex, i).name) : PriorRec(k).used > 0
               /\ \E k \in PriorWithName(Meta(ex, i).name) : PriorRec(k).tracked

\* C5: without a selection a matched record has the notes, dropped and
\* tracked of its prior record and used = min(prior used, new earned).
C5_CarriedFields ==
    LET ex == Extracted IN
        (Reconciled /\ ~Selected) =>
            \A i \in Records :
                Prev(i) # <<>> =>
                    /\ Rec(i).notes = PriorRec(Prev(i)[1]).notes
                    /\ Rec(i).dropped = PriorRec(Prev(i)[1]).dropped
                    /\ Rec(i).tracked = PriorRec(Prev(i)[1]).tracked
                    /\ Rec(i).used = Min(PriorRec(Prev(i)[1]).used, Count(ex, i) \div 5)

\* Two matched records, one carrying a dropped flag and a lowered used, one
\* carrying a note and tracked, under a key the prior state did not have.
C5_Witness ==
    /\ Reconciled
    /\ ~Selected
    /\ \E i \in Records :
           /\ Prev(i) # <<>>
           /\ Rec(i).dropped
           /\ Rec(i).used < PriorRec(Prev(i)[1]).used
    /\ \E i \in Records :
           /\ Prev(i) # <<>>
           /\ RecKey(i) \notin PriorKeys
           /\ Rec(i).notes # <<>>
           /\ Rec(i).tracked
           /\ Rec(i).used >= 1

\* C6: with a selection every record has tracked = (key in the selection),
\* matched or not; one selected key over a roster of 3 keys gives exactly one
\* tracked record.
C6_SelectionDecidesTracked ==
    (Reconciled /\ Selected) =>
        /\ \A i \in Records : Rec(i).tracked = (RecKey(i) \in selected_tracked[1])
        /\ (Cardinality(selected_tracked[1]) = 1 /\ Len(state.roster_keys_in_order) = 3)
               => Cardinality({i \in Records : Rec(i).tracked}) = 1

\* One key selected over three distinct keys, while a matched record that is
\* not selected was tracked before.
C6_Witness ==
    /\ Reconciled
    /\ Selected
    /\ Cardinality(selected_tracked[1]) = 1
    /\ Len(state.roster_keys_in_order) = 3
    /\ Len(state.students) = 3
    /\ \E i \in Records :
           /\ Prev(i) # <<>>
           /\ PriorRec(Prev(i)[1]).tracked
           /\ RecKey(i) \notin selected_tracked[1]
    /\ \E i \in Records :
           /\ Prev(i) # <<>>
           /\ ~PriorRec(Prev(i)[1]).tracked
           /\ RecKey(i) \in selected_tracked[1]

\* C7: attendance_confirmed is the snapshot's count for the key, earned is
\* that count div 5, name and id are the snapshot's; nothing of the prior
\* state reaches them.
C7_SnapshotIsSourceOfTruth ==
    LET ex == Extracted IN
        Reconciled =>
            \A i \in Records :
                /\ Rec(i).key = RecKey(i)
                /\ Rec(i).attendance_confirmed = Count(ex, i)
                /\ Rec(i).earned = Count(ex, i) \div 5
                /\ Rec(i).name = Meta(ex, i).name
                /\ Rec(i).student_id = Meta(ex, i).student_id

\* A record matched to a prior record of another name, with a count that
\* earns something.
C7_Witness ==
    /\ Reconciled
    /\ \E i \in Records :
           /\ Prev(i) # <<>>
           /\ PriorRec(Prev(i)[1]).name # Rec(i).name
           /\ Rec(i).earned >= 1

\* C8: the new state's order is the extractor's list and its records are
\* stored under exactly the keys of that list, one record per key; a prior
\* record that is neither in the snapshot nor adopted is gone.
C8_ExactlyTheRoster ==
    LET ex == Extracted IN
        Reconciled =>
            /\ state.roster_keys_in_order = ex.roster_keys_in_order
            /\ DictKeys(state.students) = Elems(ex.roster_keys_in_order)
            /\ NoRepeat([i \in Records |-> RecKey(i)])
            /\ \A k \in PriorKeys :
                   (k \notin Elems(ex.roster_keys_in_order)
                        /\ \A i \in Records : Prev(i) # <<k>>)
                       => k \notin DictKeys(state.students)

\* A prior record that is neither in the snapshot nor adopted, beside one
\* that is adopted.
C8_Witness ==
    LET ex == Extracted IN
        /\ Reconciled
        /\ Len(state.students) >= 2
        /\ \E k \in PriorKeys :
               /\ k \notin Elems(ex.roster_keys_in_order)
               /\ \A i \in Records : Prev(i) # <<k>>
        /\ \E i \in Records : Prev(i) # <<>> /\ Prev(i) # <<RecKey(i)>>

\* C9: in a state made by extraction and reconciliation, or by load, the
\* roster order holds no key twice and every record's key is the key it is
\* stored under.
C9_KeysUnique ==
    /\ Reconciled =>
           /\ NoRepeat(state.roster_keys_in_order)
           /\ \A i \in Records : Rec(i).key = RecKey(i)
    /\ prior # <<>> =>
           /\ NoRepeat(prior[1].roster_keys_in_order)
           /\ \A k \in PriorKeys : PriorRec(k).key = k

\* C10: reconciling the saved result of a reconciliation with the same
\* snapshot and no selection gives back the same state, field for field.
C10_Idempotent ==
    [][ ( /\ Reconciled
          /\ save_file = <<save_state(state)>>
          /\ pc' = "ready"
          /\ selected_tracked' = <<>> )
        => state' = state ]_vars

\* The live state came out of a reconciliation whose prior state was the load
\* of its own save, and it carries adjustments under two keys of one name.
C10_Witness ==
    /\ Reconciled
    /\ ~Selected
    /\ save_file = <<save_state(state)>>
    /\ prior = load_save(save_file)
    /\ \E i, j \in Records :
           /\ i # j
           /\ Rec(i).name = Rec(j).name
           /\ Rec(i).used >= 1
           /\ Rec(j).notes # <<>>

---------------------------------------------------------------------------
(* Properties of the save file, the extractor and the accounting handlers. *)

\* The state as the file keeps it: the two cached fields of every record at
\* their defaults.
Persisted(s) ==
    [ s EXCEPT !.students =
        [ i \in 1..Len(s.students) |->
            << s.students[i][1],
               [ s.students[i][2] EXCEPT !.attendance_confirmed = 0, !.earned = 0 ] >> ] ]

\* C11 as stated: load applied to the file written by save returns the saved
\* state, same roster order, same last snapshot name, same records field for
\* field.
C11_RoundTripExact ==
    Reconciled => load_save(<<save_state(state)>>) = <<state>>

\* C11, amended: load applied to the file written by save returns the saved
\* state in roster order, last snapshot name and every record's key, name,
\* student_id, tracked, used, notes and dropped; attendance_confirmed and
\* earned come back as 0.
C11_RoundTrip ==
    Reconciled => load_save(<<save_state(state)>>) = <<Persisted(state)>>

\* The Save button wrote the file of a state with a dropped record, a note, a
\* used slip day and a positive attendance count.
C11_Witness ==
    /\ Reconciled
    /\ prior # <<>>
    /\ ~Selected
    /\ save_file = <<save_state(state)>>
    /\ save_file # <<save_state(prior[1])>>
    /\ \E i, j \in Records :
           /\ Rec(i).dropped /\ Rec(i).attendance_confirmed > 0
           /\ Rec(j).notes # <<>> /\ Rec(j).used >= 1 /\ Rec(j).tracked

\* The orders the rows of a snapshot of n rows can come in.
RowOrders(n) == { p \in [1..n -> 1..n] : \A i, j \in 1..n : i # j => p[i] # p[j] }

\* The snapshot with its rows in the order p.
Reordered(csv, p) == [ csv EXCEPT !.rows = [i \in 1..Len(csv.rows) |-> csv.rows[p[i]]] ]

\* The extractor has returned.
HasExtracted == pc # "start"

\* C12: a snapshot with the same rows in another order gives the same set of
\* keys and the same roster order list.
C12_IdentityStable ==
    HasExtracted =>
        \A p \in RowOrders(Len(active_csv.rows)) :
            LET other == read_canvas_gradebook_csv(Reordered(active_csv, p))
            IN  /\ Elems(other.roster_keys_in_order) = Elems(extracted.roster_keys_in_order)
                /\ other.roster_keys_in_order = extracted.roster_keys_in_order

Max(a, b) == IF a > b THEN a ELSE b

\* The last handler call, and the record it was made on as it was before the
\* call.
LastCalled(op) == last_call' # <<>> /\ last_call'[1].op = op
RecordBefore == DictGet(state.students, last_call'[1].key)

\* The state with the one field `used` of the called record set to u.
WithUsed(u) == [ state EXCEPT !.students[DictIdx(state.students, last_call'[1].key)][2].used = u ]

\* C13: consume(record, n) is refused and changes no field of the state when
\* n > available(record) = max(0, earned - used) or the record is dropped;
\* otherwise it sets used to used + n and changes nothing else.
C13_Consume ==
    [][ LastCalled("do_use") =>
          IF last_call'[1].n > Max(0, RecordBefore.earned - RecordBefore.used) \/ RecordBefore.dropped
          THEN last_call'[1].shown # "" /\ state' = state
          ELSE last_call'[1].shown = "" /\ state' = WithUsed(RecordBefore.used + last_call'[1].n) ]_vars

\* Scenario C: consume(record, 2) on a record with earned = 1 and used = 0 was
\* refused and used is still 0.
C13_Witness ==
    /\ last_call # <<>>
    /\ last_call[1].op = "do_use" /\ last_call[1].n = 2 /\ last_call[1].shown = "Not enough"
    /\ LET st == DictGet(state.students, last_call[1].key)
       IN  st.earned = 1 /\ st.used = 0 /\ ~st.dropped

\* C14: refund(record, n) sets used to max(0, used - n) for every record,
\* dropped or not, and every n >= 0, without a refusal; no other field of the
\* state changes and used is never negative.
C14_Refund ==
    [][ LastCalled("do_refund") =>
          /\ last_call'[1].shown = ""
          /\ state' = WithUsed(Max(0, RecordBefore.used - last_call'[1].n))
          /\ DictGet(state'.students, last_call'[1].key).used >= 0 ]_vars

\* A refund of 2 on a dropped record with one slip day earned, hence at most
\* one used, left used at 0.
C14_Witness ==
    /\ last_call # <<>>
    /\ last_call[1].op = "do_refund" /\ last_call[1].n = 2
    /\ LET st == DictGet(state.students, last_call[1].key)
       IN  st.dropped /\ st.used = 0 /\ st.earned = 1

\* C15: toggling dropped from false to true sets used to min(used, earned);
\* toggling it from true to false leaves used unchanged; in both cases only
\* dropped and used of that record can change, so notes, tracked, earned and
\* attendance_confirmed are unchanged.
C15_ToggleDrop ==
    [][ LastCalled("do_toggle_drop") =>
          LET idx == DictIdx(state.students, last_call'[1].key)
              flipped == [ state EXCEPT !.students[idx][2].dropped = ~RecordBefore.dropped ]
          IN  IF RecordBefore.dropped
              THEN state' = flipped
              ELSE state' = [ flipped EXCEPT !.students[idx][2].used = Min(RecordBefore.used, RecordBefore.earned) ] ]_vars

\* The last toggle dropped a record that had used slip days, and kept them.
C15_Witness ==
    /\ last_call # <<>>
    /\ last_call[1].op = "do_toggle_drop"
    /\ LET st == DictGet(state.students, last_call[1].key)
       IN  st.dropped /\ st.used >= 1 /\ st.used <= st.earned

\* C16: for every count c >= 0, earned(c) is the floor of c / 5, and
\* earned(c) = earned(c + 1) whenever c mod 5 # 4; available(record) is
\* max(0, earned - used) and never negative, on the records of the state and
\* on the records loaded from the save file.
C16_EarnedAndAvailable ==
    /\ \A c \in 0..MaxCount :
           /\ 5 * compute_earned(c) <= c /\ c < 5 * compute_earned(c) + 5
           /\ (c % 5 # 4) => compute_earned(c + 1) = compute_earned(c)
    /\ Reconciled =>
           \A i \in Records :
               /\ 5 * Rec(i).earned <= Rec(i).attendance_confirmed
               /\ Rec(i).attendance_confirmed < 5 * Rec(i).earned + 5
               /\ available(Rec(i)) = Max(0, Rec(i).earned - Rec(i).used)
               /\ available(Rec(i)) >= 0
    /\ \A k \in PriorKeys :
           /\ available(PriorRec(k)) = Max(0, PriorRec(k).earned - PriorRec(k).used)
           /\ available(PriorRec(k)) >= 0

\* A reconciled state with a count of 4 (one short of a slip day) and a count
\* of 7 (one slip day), loaded over a record that has more used than earned.
C16_Witness ==
    /\ Reconciled
    /\ \E i, j \in Records :
           /\ Rec(i).attendance_confirmed = 4 /\ Rec(i).earned = 0
           /\ Rec(j).attendance_confirmed = 7 /\ Rec(j).earned = 1
    /\ \E k \in PriorKeys : PriorRec(k).used > PriorRec(k).earned /\ available(PriorRec(k)) = 0

\* The rows the extractor keeps, and of the i-th of them the normalized name,
\* the external id ("" for none) and the number of rows without an id, up to
\* and including it, that have its normalized name.
KeptRows == df_students(active_csv)
RowName(i) == normalize_name(KeptRows[i].Student)
RowId(i) == row_sid(KeptRows[i], active_csv.has_sis)
NameCount(i) == Cardinality({ j \in 1..i : RowId(j) = <<>> /\ RowName(j) = RowName(i) })

\* <prefix><externalId> for a row with an id, name:<normalizedName>#<n> for
\* any other row.
KeyAs(prefix, i) ==
    IF RowId(i) # <<>> THEN prefix \o RowId(i)
    ELSE <<"n", "a", "m", "e", ":">> \o RowName(i) \o <<"#">> \o IntToStr(NameCount(i))

\* The roster holds, for every kept row, the key KeyAs gives it, as often as
\* rows have that key, and the metadata under that key carries the row's id.
KeysAre(prefix) ==
    \A keys \in { [i \in 1..Len(KeptRows) |-> KeyAs(prefix, i)] } :
        /\ Len(extracted.roster_keys_in_order) = Len(keys)
        /\ \A i \in 1..Len(keys) :
               /\ Cardinality({ j \in 1..Len(keys) : extracted.roster_keys_in_order[j] = keys[i] })
                    = Cardinality({ j \in 1..Len(keys) : keys[j] = keys[i] })
               /\ DictHas(extracted.student_meta, keys[i])
               /\ DictGet(extracted.student_meta, keys[i]).student_id = RowId(i)

\* C17 as stated: the key of a row with a non-empty external id is
\* id:<externalId>; the key of any other row is name:<normalizedName>#<n>, n
\* the 1-based occurrence count of that normalized name so far.
C17_KeyFormsAsStated == HasExtracted => KeysAre(<<"i", "d", ":">>)

\* C17, amended: the key of a row with a non-empty external id is
\* sid:<externalId>; the key of any other row is name:<normalizedName>#<n>, n
\* the 1-based count of the rows without an external id that have that
\* normalized name so far.
C17_KeyForms == HasExtracted => KeysAre(<<"s", "i", "d", ":">>)

\* A snapshot whose first row has the id 4421 and the name Jane Doe, followed
\* by two rows of that name without an id: they are Jane Doe#1 and Jane Doe#2.
C17_Witness ==
    /\ HasExtracted
    /\ Len(KeptRows) = 3
    /\ RowId(1) = Id4421 /\ RowName(1) = JaneDoe
    /\ RowId(2) = <<>> /\ RowName(2) = JaneDoe
    /\ RowId(3) = <<>> /\ RowName(3) = JaneDoe
    /\ Elems(extracted.roster_keys_in_order)
         = { <<"s", "i", "d", ":">> \o Id4421,
             <<"n", "a", "m", "e", ":">> \o JaneDoe \o <<"#", "1">>,
             <<"n", "a", "m", "e", ":">> \o JaneDoe \o <<"#", "2">> }

NameJaneDoe1 == <<"n", "a", "m", "e", ":">> \o JaneDoe \o <<"#", "1">>

\* Scenario B: the prior state holds name:Jane Doe#1 with used = 1, the only
\* prior record of that name, and no record with the id 4421; in the new
\* snapshot one row, that person's, has the id 4421, and it has 4 confirmed
\* attendances.
ScenarioB ==
    /\ Reconciled
    /\ NameJaneDoe1 \in PriorKeys
    /\ PriorRec(NameJaneDoe1).used = 1
    /\ PriorWithName(JaneDoe) = {NameJaneDoe1}
    /\ PriorWithSid(Id4421) = {}
    /\ \E i \in 1..Len(KeptRows) :
           /\ RowName(i) = JaneDoe /\ RowId(i) = Id4421
           /\ count_confirmed(KeptRows[i].cells) = 4
           /\ \A j \in 1..Len(KeptRows) : RowId(j) = Id4421 => j = i

\* The new state holds a record under <prefix>4421 that adopted
\* name:Jane Doe#1 (its notes and dropped flag), with earned = 0 and used = 0.
ScenarioBOutcome(prefix) ==
    \E i \in Records :
        /\ RecKey(i) = prefix \o Id4421 /\ Rec(i).key = prefix \o Id4421
        /\ Prev(i) = <<NameJaneDoe1>>
        /\ Rec(i).notes = PriorRec(NameJaneDoe1).notes
        /\ Rec(i).dropped = PriorRec(NameJaneDoe1).dropped
        /\ Rec(i).attendance_confirmed = 4
        /\ Rec(i).earned = 0
        /\ Rec(i).used = 0

\* C18 as stated: in scenario B the new state holds a record with key id:4421
\* that adopted the prior record through the unique-name fallback, with
\* earned = 0 and used clamped to 0.
C18_ScenarioBAsStated == ScenarioB => ScenarioBOutcome(<<"i", "d", ":">>)

\* C18, amended: in scenario B the new state holds a record with key sid:4421
\* that adopted the prior record through the unique-name fallback, with
\* earned = 0 and used clamped to 0.
C18_ScenarioB == ScenarioB => ScenarioBOutcome(<<"s", "i", "d", ":">>)

\* Scenario B happened, and the prior record is gone from the new state.
C18_Witness ==
    /\ ScenarioB
    /\ prior[1].students = << <<NameJaneDoe1, PriorRec(NameJaneDoe1)>> >>
    /\ PriorRec(NameJaneDoe1).dropped
    /\ DictKeys(state.students) = { <<"s", "i", "d", ":">> \o Id4421 }

\* The key the first loop gives the i-th kept row.
RowKey(i) == KeyAs(<<"s", "i", "d", ":">>, i)

\* Scenario A: the snapshot has no id column and one row, "Doe, Jane", with 7
\* confirmed cells out of 10.
ScenarioA ==
    /\ Reconciled
    /\ ~active_csv.has_sis
    /\ Len(KeptRows) = 1
    /\ KeptRows[1].Student = JaneRaw
    /\ Len(KeptRows[1].cells) = 10
    /\ count_confirmed(KeptRows[1].cells) = 7

\* C19: for each kept row the number of attendance cells whose trimmed value
\* is a confirmed value is recorded under the key the first loop gave that
\* row, and the keys of the count map are the roster keys; in scenario A the
\* one record is name:Jane Doe#1 with attendance_confirmed = 7 and earned = 1.
C19_CountsUnderRowKeys ==
    /\ HasExtracted =>
           /\ \A i \in 1..Len(KeptRows) :
                  /\ DictHas(extracted.confirmed_attendance, RowKey(i))
                  /\ DictGet(extracted.confirmed_attendance, RowKey(i))
                       = Cardinality({ c \in 1..Len(KeptRows[i].cells) :
                                         Strip(KeptRows[i].cells[c]) \in CONFIRMED_ATTENDANCE_VALUES })
           /\ DictKeys(extracted.confirmed_attendance) = Elems(extracted.roster_keys_in_order)
    /\ ScenarioA =>
           /\ DictKeys(state.students) = {NameJaneDoe1}
           /\ DictGet(state.students, NameJaneDoe1).attendance_confirmed = 7
           /\ DictGet(state.students, NameJaneDoe1).earned = 1

\* (lowercased last word of the name, lowercased other words, id, key) of a
\* roster key, from the metadata the extractor returns for it.
OrderTuple(ex, k) ==
    LET m     == DictGet(ex.student_meta, k)
        words == Split(m.name)
    IN  IF words = <<>> THEN << <<>>, <<>>, m.student_id, k >>
        ELSE << Lower(words[Len(words)]), Lower(Join(SubSeq(words, 1, Len(words) - 1))),
                m.student_id, k >>

\* C20: the roster order of the extractor is ascending in (lowercased last
\* name, lowercased remaining words, external id, key), and it is the same
\* list for every order of the snapshot's rows.
C20_RosterOrder ==
    HasExtracted =>
        /\ \A a, b \in 1..Len(extracted.roster_keys_in_order) :
               a < b => ~TupleLess(OrderTuple(extracted, extracted.roster_keys_in_order[b]),
                                   OrderTuple(extracted, extracted.roster_keys_in_order[a]))
        /\ \A p \in RowOrders(Len(active_csv.rows)) :
               read_canvas_gradebook_csv(Reordered(active_csv, p)).roster_keys_in_order
                 = extracted.roster_keys_in_order

---------------------------------------------------------------------------
(* Properties of the hold-Esc exit.                                        *)

\* The process has exited through _esc_finish.
EscExited == pc = "exited" /\ esc_done

\* C21: the exit step of the hold-Esc path is taken only when the thread of
\* the save, if one was started, has ended and has reported (esc_save_done).
C21_ExitAfterSaveDone ==
    EscExited =>
        /\ worker_pc \in {"none", "finished"}
        /\ esc_save_started => esc_save_done

\* The process exited after the thread wrote the file of a session in which a
\* slip day was used.
C21_Witness ==
    /\ EscExited
    /\ worker_pc = "finished"
    /\ esc_save_error = ""
    /\ save_file # <<>>
    /\ \E i \in 1..Len(save_file[1].students) : save_file[1].students[i][2].used >= 1

\* C22: when the save of the exit fails (write_text raises), the hold-Esc
\* exit does not end the process.
C22_NoExitAfterFailedSave == esc_save_error # "" => ~EscExited

\* C28: when the process exits through the hold-Esc path with a snapshot
\* loaded, the save file holds the state as it was when the last hold began,
\* also after an earlier hold that was released early.
C28_ExitSavesStateOfLastHold ==
    (EscExited /\ active_csv # NoCsv) => save_file = <<save_state(hold_began[1])>>

---------------------------------------------------------------------------
(* Properties of a save that a crash cuts short, and of the load after it. *)

\* What load makes of the file: raised, or the prior state.
Loads(file) == try_load_save(file)

\* C23: the text of a save is serialized in full while the file is as it
\* was, it decodes to the dict it was made from, and none of the texts a
\* stopped write can leave of it decodes; so after a crash during a save,
\* load rejects the file or returns the state saved before or the state that
\* was being saved.
C23_CrashLeavesOldNewOrRejected ==
    /\ (pc = "saving" /\ ~writing[1].opened) =>
          /\ save_file = writing[1].old
          /\ json_loads(writing[1].text).ok
          /\ as_payload(json_loads(writing[1].text).v) = writing[1].payload
          /\ \A pre \in ProperPrefixes(writing[1].text) : ~json_loads(pre).ok
    /\ (pc = "crashed" /\ writing # <<>>) =>
          \/ Loads(save_file).raised
          \/ Loads(save_file).prior = Loads(writing[1].old).prior
          \/ Loads(save_file).prior = load_save(<<writing[1].payload>>)

\* A crash in the middle of the text of a state that differs from the one
\* saved before.
C23_Witness ==
    /\ pc = "crashed" /\ writing # <<>> /\ writing[1].opened
    /\ is_torn(save_file)
    /\ Len(save_file[1].torn) * 2 > Len(writing[1].text)
    /\ Len(save_file[1].torn) < Len(writing[1].text)
    /\ writing[1].old # <<>>
    /\ writing[1].old[1] # writing[1].payload

\* C24: with no save file the load goes on without a prior state and without
\* an error; with a save file that does not decode it ends the process, and
\* neither the file nor the state has changed.
C24_AbsentOrUnparsable ==
    [][ /\ (pc = "start" /\ pc' # "start" /\ save_file = <<>>) =>
              /\ pc' \in {"ready", "exited"}
              /\ pc' = "ready" => prior' = <<>>
        /\ (pc = "start" /\ pc' # "start" /\ unparsable(save_file)) =>
              /\ pc' = "failed"
              /\ save_file' = save_file
              /\ state' = state
        /\ pc = "failed" => save_file' = save_file ]_vars

\* The process ended on a file a crash had left.
C24_Witness ==
    /\ pc = "failed"
    /\ unparsable(save_file)
    /\ Len(save_file[1].torn) > 0
    /\ state = SaveState(<<>>, "")

---------------------------------------------------------------------------
(* Properties of the session with snapshots opened and the selection       *)
(* changed.                                                                *)

\* C27: in the state of the session every record has 0 <= used <= earned,
\* whatever snapshots were loaded, selections made and slip days used,
\* refunded or dropped since the start.
C27_LiveUsedWithinEarned ==
    \A i \in 1..Len(state.students) :
        /\ 0 <= state.students[i][2].used
        /\ state.students[i][2].used <= state.students[i][2].earned

\* A record dropped with all of its slip days used, in a session that began
\* from a save file.
C27_Witness ==
    /\ pc = "ready"
    /\ prior # <<>>
    /\ last_call # <<>> /\ last_call[1].op = "do_toggle_drop"
    /\ \E i \in 1..Len(state.students) :
         /\ state.students[i][2].dropped
         /\ state.students[i][2].earned >= 1
         /\ state.students[i][2].used = state.students[i][2].earned

\* The snapshot has no "Student" column or no column with an attendance
\* header.
LacksColumns(csv) ==
    \/ \A i \in 1..Len(Columns(csv)) : Columns(csv)[i] # StudentColumn
    \/ \A i \in 1..Len(Columns(csv)) : ~attendance_col_match(Columns(csv)[i])

\* The keys, counts and metadata last extracted, the state and the save file
\* are what they were.
NothingFollows == UNCHANGED <<extracted, state, prior, save_file>>

\* C25: the load of a snapshot without the "Student" column or without
\* attendance columns ends at the extraction: the initial load ends the
\* process, do_open_csv and do_change_tracked end where they were, and no
\* extraction result, reconciled state or save comes of it.
C25_MalformedSnapshotStopsLoad ==
    [][ /\ (pc = "start" /\ pc' # "start" /\ LacksColumns(active_csv)) =>
              (pc' = "failed" /\ NothingFollows)
        /\ ((LastCalled("do_open_csv") \/ LastCalled("do_change_tracked"))
              /\ LacksColumns(active_csv')) => NothingFollows ]_vars

\* A snapshot without attendance columns was opened in a session that had
\* slip days used.
C25_Witness ==
    /\ pc = "ready"
    /\ last_call # <<>> /\ last_call[1].op = "do_open_csv"
    /\ active_csv.name = "scores.csv"
    /\ LacksColumns(active_csv)
    /\ \E i \in 1..Len(state.students) : state.students[i][2].used >= 1

\* C29: do_change_tracked and do_open_csv leave on every record that was in
\* the session its notes and dropped as they were in the session, and its
\* used but for the clamp to the slip days now earned.
C29_ReconcileKeepsSessionValues ==
    [][ (LastCalled("do_change_tracked") \/ LastCalled("do_open_csv")) =>
          \A i \in 1..Len(state'.students) :
              DictHas(state.students, state'.students[i][1]) =>
                  /\ state'.students[i][2].notes =
                         DictGet(state.students, state'.students[i][1]).notes
                  /\ state'.students[i][2].dropped =
                         DictGet(state.students, state'.students[i][1]).dropped
                  /\ state'.students[i][2].used =
                         IF DictGet(state.students, state'.students[i][1]).used
                                <= state'.students[i][2].earned
                         THEN DictGet(state.students, state'.students[i][1]).used
                         ELSE state'.students[i][2].earned ]_vars

---------------------------------------------------------------------------
(* Rows and keys.                                                          *)

\* C30: the kept rows of a snapshot have pairwise distinct keys, the
\* reconciled state has as many records as rows were kept, and the record
\* under the key of a row carries that row's attendance count and name.
C30_DistinctRowsDistinctKeys ==
    Reconciled =>
        /\ \A i, j \in 1..Len(state.roster_keys_in_order) :
               i # j => state.roster_keys_in_order[i] # state.roster_keys_in_order[j]
        /\ Len(state.students) = Len(KeptRows)
        /\ \A i \in 1..Len(KeptRows) :
               /\ DictHas(state.students, RowKey(i))
               /\ DictGet(state.students, RowKey(i)).attendance_confirmed
                    = count_confirmed(KeptRows[i].cells)
               /\ DictGet(state.students, RowKey(i)).name = RowName(i)

---------------------------------------------------------------------------
(* Properties of the session while the thread of the exit save runs.       *)

\* The thread of the save has not yet written the file.
SaveRunning == worker_pc \in {"serialize", "write"}

\* C31: while the thread of the exit save runs, no step changes the state,
\* and the file it writes is the state as it is throughout.
C31_NoMutationWhileSaving ==
    [][ /\ SaveRunning => state' = state
        /\ (worker_pc = "write" /\ save_file' # save_file) =>
               save_file' = <<save_state(state)>> ]_vars

---------------------------------------------------------------------------
(* The hold with its clock: time.monotonic() and the delays of root.after. *)
(* A callback runs at the moment it is due; the keys are pressed and       *)
(* released at any moment of the clock, which beats every ClockStep ms.    *)

MaxHoldMoments == 80

ClockStep == SAVEESCTIME \div MaxHoldMoments

\* on_esc_release, line 1155: root.after(140, _esc_maybe_cancel).
ReleaseDebounceMs == 140

\* _esc_finish, lines 980 and 983: root.after(50, _poll).
PollMs == 50

NoHold == [held_ms |-> 0, up_at |-> 0, cancel_in |-> 0, poll_in |-> 0]

escLocals == <<esc_active, esc_done, esc_is_down, esc_after_id, esc_release_after_id, esc_finish_after_id, esc_save_started, esc_save_done, esc_save_error, esc_frame_mapped, after_queue, worker_pc, worker_read, hold_began>>

\* root.after has a callback to run now. _esc_tick comes back every ms and
\* changes only the progress bar until the hold time has passed.
CancelDue == "_esc_maybe_cancel" \in after_queue /\ clock.cancel_in = 0

Due ==
    \/ CancelDue
    \/ "_poll" \in after_queue /\ clock.poll_in = 0
    \/ "_esc_tick" \in after_queue /\ clock.held_ms >= SAVEESCTIME

\* on_esc_press; _esc_start_hold sets esc_start when it starts a hold.
HoldPress ==
    /\ on_esc_press
    /\ clock' = [clock EXCEPT !.held_ms = IF esc_active' /\ ~esc_active THEN 0 ELSE @,
                              !.up_at = 0,
                              !.cancel_in = 0]

\* on_esc_release; up_at keeps the moment of the hold at which the key went
\* up.
HoldRelease ==
    /\ on_esc_release
    /\ clock' = [clock EXCEPT !.up_at = clock.held_ms,
                              !.cancel_in = IF esc_release_after_id' /\ ~esc_release_after_id
                                            THEN ReleaseDebounceMs ELSE @]

\* _esc_maybe_cancel, ReleaseDebounceMs after the release.
HoldMaybeCancel ==
    /\ clock.cancel_in = 0
    /\ esc_maybe_cancel
    /\ clock' = IF esc_active' THEN clock ELSE NoHold

\* _esc_tick, with the time since esc_start. Of two callbacks due at the
\* same moment root.after runs first the one that was set first, and
\* _esc_maybe_cancel was set ReleaseDebounceMs ago.
HoldTick ==
    /\ ~CancelDue
    /\ esc_tick(clock.held_ms)
    /\ clock' = [clock EXCEPT !.poll_in = IF "_poll" \in after_queue' /\ "_poll" \notin after_queue
                                          THEN PollMs ELSE @]

\* _poll, PollMs after it was set.
HoldPoll ==
    /\ clock.poll_in = 0
    /\ ~CancelDue
    /\ poll
    /\ clock' = [clock EXCEPT !.poll_in = IF "_poll" \in after_queue' THEN PollMs ELSE 0]

\* ClockStep ms pass, with no callback due.
Advance ==
    /\ Alive
    /\ ~Due
    /\ clock' = [held_ms |-> IF esc_active THEN Min(clock.held_ms + ClockStep, SAVEESCTIME)
                             ELSE clock.held_ms,
                 up_at |-> clock.up_at,
                 cancel_in |-> Max(clock.cancel_in - ClockStep, 0),
                 poll_in |-> Max(clock.poll_in - ClockStep, 0)]
    /\ UNCHANGED <<sessionVars, escLocals, writing>>

InitHold == StartWith({ <<>> }, EscSnapshots \cup {NoCsv})

NextHold ==
    \/ InitialLoad \/ StartWithoutCsv
    \/ HoldPress \/ HoldRelease \/ HoldMaybeCancel \/ HoldTick \/ HoldPoll \/ Advance
    \/ WorkerSerialize \/ WorkerWrite \/ WorkerWriteFails \/ WorkerFinally

SpecHold == InitHold /\ [][NextHold]_vars

\* C32: the process exits on a hold only with the key still down, or let go
\* when the hold time had passed; a key let go earlier and not pressed again
\* ends the hold without an exit.
C32_ExitOnlyAfterFullHold ==
    EscExited => (esc_is_down \/ clock.up_at >= SAVEESCTIME)

====
